---- MODULE Spec2Model ----
(***************************************************************************)
(* SketchDDD visual builder: the zustand domain store (contexts, nodes,    *)
(* morphisms, context maps, undo/redo history), the guided wizards that    *)
(* write to it, the .sddd import conversion and the TypeScript / Java / C# *)
(* code generators that read it.                                           *)
(***************************************************************************)
EXTENDS Integers, Sequences, FiniteSets, TLC

(***************************************************************************)
(* Bounds of the model.                                                    *)
(***************************************************************************)
\* how many ids generateId() hands out in one behaviour
MaxIds == 4
\* how many snapshots the undo stack may hold before recorded actions stop
MaxPast == 5
\* how many milliseconds the clock may advance
MaxNow == 1
\* how many callers of initWasm() there are
MaxCallers == 2
\* how many fields the form of the NewConceptWizard holds
MaxFields == 2
\* how many nodes the context holds when the NewConceptWizard is opened
MaxConcepts == 1
\* how many morphisms a validated model has
MaxMorphisms == 3
\* how many snapshots the undo stack holds when every store action is explored
MaxRecorded == 2
\* how many of the panels, the selections and the validation result differ
\* from the initial state at once when every store action is explored
MaxUiChanges == 1

(***************************************************************************)
(* Program constants.                                                      *)
(***************************************************************************)
MAX_HISTORY == 50

\* '' and null ids
NoId == 0
Ids == 1..MaxIds

VARIABLES
    \* DomainState (domainStore.ts 21-41)
    activeContextId,
    contexts,
    contextMaps,
    selectedNodeIds,
    selectedEdgeIds,
    validationResult,
    isPaletteOpen,
    isPropertiesPanelOpen,
    \* module-level history (domainStore.ts 114-117)
    history,
    \* the ids crypto.randomUUID() has handed out so far
    nextId,
    \* AggregateWizard and its WizardModal (component state)
    aggregateWizard,
    \* ConnectConceptsWizard and its WizardModal (component state)
    connectWizard,
    \* CodeGenPanel (component state), its memoised generatedFiles, the clock
    codeGenPanel,
    generatedFiles,
    now,
    \* wasmModule of the WASM wrapper: "null" until the module is loaded
    wasmModule,
    \* initPromise of the WASM wrapper: "null", "pending", "fulfilled", "rejected"
    initPromise,
    \* the async function behind initPromise: where it is, and how often the
    \* module was imported and wasm.default() was called
    wasmLoader,
    \* the calls of initWasm(), per caller: "idle", "awaiting", "resolved", "rejected"
    initCalls,
    \* the wrapper function called last and how it ended; the functions of
    \* the module that were called
    lastCall,
    moduleCalls,
    \* NewConceptWizard and its WizardModal (component state)
    conceptWizard,
    \* the model handed to the validator, its diagnostics and its
    \* ValidationResult; <<>> while nothing is validated
    validation

storeVars == <<activeContextId, contexts, contextMaps, selectedNodeIds,
               selectedEdgeIds, validationResult, isPaletteOpen,
               isPropertiesPanelOpen>>

vars == <<activeContextId, contexts, contextMaps, selectedNodeIds,
          selectedEdgeIds, validationResult, isPaletteOpen,
          isPropertiesPanelOpen, history, nextId, aggregateWizard,
          connectWizard, codeGenPanel, generatedFiles, now, wasmModule,
          initPromise, wasmLoader, initCalls, lastCall, moduleCalls,
          conceptWizard, validation>>

wasmVars == <<wasmModule, initPromise, wasmLoader, initCalls, lastCall, moduleCalls>>

uiVars == <<aggregateWizard, connectWizard, conceptWizard, codeGenPanel,
            generatedFiles, now, wasmVars, validation>>

(***************************************************************************)
(* Sequence helpers.                                                       *)
(***************************************************************************)
Range(s) == {s[i] : i \in 1..Len(s)}

RECURSIVE MapSeq(_, _)
MapSeq(F(_), s) == IF s = <<>> THEN <<>> ELSE <<F(Head(s))>> \o MapSeq(F, Tail(s))

RECURSIVE Flatten(_)
Flatten(ss) == IF ss = <<>> THEN <<>> ELSE Head(ss) \o Flatten(Tail(ss))

\* Array.prototype.includes
Includes(s, x) == \E i \in 1..Len(s) : s[i] = x

\* Object.keys(state.contexts): the ids in insertion order
ContextIdsOf(ctxs) == MapSeq(LAMBDA c : c.id, ctxs)

HasContext(ctxs, contextId) == \E i \in 1..Len(ctxs) : ctxs[i].id = contextId

\* state.contexts[contextId], for an id that is a key
ContextOf(ctxs, contextId) == ctxs[CHOOSE i \in 1..Len(ctxs) : ctxs[i].id = contextId]

(***************************************************************************)
(* The store.                                                              *)
(***************************************************************************)
\* const initialState (domainStore.ts 102-111)
initialState ==
    [activeContextId |-> NoId,
     contexts |-> <<>>,
     contextMaps |-> <<>>,
     selectedNodeIds |-> <<>>,
     selectedEdgeIds |-> <<>>,
     validationResult |-> <<>>,
     isPaletteOpen |-> TRUE,
     isPropertiesPanelOpen |-> TRUE]

\* get(): the DomainState part of the store
CurrentState ==
    [activeContextId |-> activeContextId,
     contexts |-> contexts,
     contextMaps |-> contextMaps,
     selectedNodeIds |-> selectedNodeIds,
     selectedEdgeIds |-> selectedEdgeIds,
     validationResult |-> validationResult,
     isPaletteOpen |-> isPaletteOpen,
     isPropertiesPanelOpen |-> isPropertiesPanelOpen]

\* set(s): s is a whole DomainState, every field is overwritten
SetState(s) ==
    /\ activeContextId' = s.activeContextId
    /\ contexts' = s.contexts
    /\ contextMaps' = s.contextMaps
    /\ selectedNodeIds' = s.selectedNodeIds
    /\ selectedEdgeIds' = s.selectedEdgeIds
    /\ validationResult' = s.validationResult
    /\ isPaletteOpen' = s.isPaletteOpen
    /\ isPropertiesPanelOpen' = s.isPropertiesPanelOpen

\* a saveToHistory that drops the newest snapshot at the limit
SaveDroppingNewest(h, state) ==
    LET pushed == Append(h.past, state)
    IN  [past |-> IF Len(pushed) > MAX_HISTORY THEN SubSeq(pushed, 1, MAX_HISTORY)
                  ELSE pushed,
         future |-> <<>>]

\* a saveToHistory that keeps the redo stack
SaveKeepingFuture(h, state) ==
    LET pushed == Append(h.past, state)
    IN  [past |-> IF Len(pushed) > MAX_HISTORY THEN Tail(pushed) ELSE pushed,
         future |-> h.future]

\* saveToHistory (domainStore.ts 121-127): the history after the call
saveToHistory(h, state) ==
    LET pushed == Append(h.past, state)
    IN  [past |-> IF Len(pushed) > MAX_HISTORY THEN Tail(pushed) ELSE pushed,
         future |-> <<>>]

\* the model stops recording once the undo stack holds MaxPast snapshots
CanRecord == Len(history.past) < MaxPast

\* generateId (domainStore.ts 100): a fresh id
CanGenerateId == nextId <= MaxIds

\* a deleteContext that forgets the maps pointing at the deleted context
WithoutMapsFrom(maps, contextId) ==
    SelectSeq(maps, LAMBDA m : m.sourceContextId # contextId)

\* the filter of deleteContext (domainStore.ts 155-157)
WithoutMapsOf(maps, contextId) ==
    SelectSeq(maps, LAMBDA m : m.sourceContextId # contextId
                               /\ m.targetContextId # contextId)

\* createContext (domainStore.ts 136-149)
createContext(name) ==
    /\ CanGenerateId
    /\ CanRecord
    /\ LET id == nextId
       IN  /\ nextId' = nextId + 1
           /\ history' = saveToHistory(history, CurrentState)
           /\ contexts' = Append(contexts,
                                 [id |-> id, name |-> name,
                                  nodes |-> <<>>, morphisms |-> <<>>])
           /\ activeContextId' = id
    /\ UNCHANGED <<contextMaps, selectedNodeIds, selectedEdgeIds,
                   validationResult, isPaletteOpen, isPropertiesPanelOpen>>

\* a deleteContext that leaves activeContextId as it is
DeleteKeepingActive(contextId) ==
    /\ CanRecord
    /\ history' = saveToHistory(history, CurrentState)
    /\ contexts' = SelectSeq(contexts, LAMBDA c : c.id # contextId)
    /\ contextMaps' = WithoutMapsOf(contextMaps, contextId)
    /\ UNCHANGED <<activeContextId, selectedNodeIds, selectedEdgeIds, validationResult,
                   isPaletteOpen, isPropertiesPanelOpen, nextId>>

\* deleteContext (domainStore.ts 151-163)
deleteContext(contextId) ==
    /\ CanRecord
    /\ history' = saveToHistory(history, CurrentState)
    /\ LET remaining == SelectSeq(contexts, LAMBDA c : c.id # contextId)
       IN  /\ contexts' = remaining
           /\ contextMaps' = WithoutMapsOf(contextMaps, contextId)
           /\ activeContextId' =
                IF activeContextId = contextId
                THEN (IF Len(remaining) > 0 THEN remaining[1].id ELSE NoId)
                ELSE activeContextId
    /\ UNCHANGED <<selectedNodeIds, selectedEdgeIds, validationResult,
                   isPaletteOpen, isPropertiesPanelOpen, nextId>>

\* setActiveContext (domainStore.ts 165-171)
setActiveContext(contextId) ==
    /\ activeContextId' = contextId
    /\ selectedNodeIds' = <<>>
    /\ selectedEdgeIds' = <<>>
    /\ UNCHANGED <<contexts, contextMaps, validationResult, isPaletteOpen,
                   isPropertiesPanelOpen, history, nextId>>

\* renameContext (domainStore.ts 173-180): the snapshot is taken whether or
\* not the context exists
renameContext(contextId, name) ==
    /\ history' = saveToHistory(history, CurrentState)
    /\ contexts' = MapSeq(LAMBDA c : IF c.id = contextId
                                      THEN [c EXCEPT !.name = name] ELSE c,
                          contexts)
    /\ UNCHANGED <<activeContextId, contextMaps, selectedNodeIds, selectedEdgeIds,
                   validationResult, isPaletteOpen, isPropertiesPanelOpen, nextId>>

\* moveNode (domainStore.ts 220-227)
moveNode(contextId, nodeId, position) ==
    /\ contexts' = MapSeq(LAMBDA c :
                              IF c.id = contextId
                              THEN [c EXCEPT !.nodes =
                                      MapSeq(LAMBDA n : IF n.id = nodeId
                                                        THEN [n EXCEPT !.position = position]
                                                        ELSE n,
                                             c.nodes)]
                              ELSE c,
                          contexts)
    /\ UNCHANGED <<activeContextId, contextMaps, selectedNodeIds, selectedEdgeIds,
                   validationResult, isPaletteOpen, isPropertiesPanelOpen,
                   history, nextId>>

\* setSelectedNodes (domainStore.ts 361-365)
setSelectedNodes(nodeIds) ==
    /\ selectedNodeIds' = nodeIds
    /\ UNCHANGED <<activeContextId, contexts, contextMaps, selectedEdgeIds,
                   validationResult, isPaletteOpen, isPropertiesPanelOpen,
                   history, nextId>>

\* setSelectedEdges (domainStore.ts 367-371)
setSelectedEdges(edgeIds) ==
    /\ selectedEdgeIds' = edgeIds
    /\ UNCHANGED <<activeContextId, contexts, contextMaps, selectedNodeIds,
                   validationResult, isPaletteOpen, isPropertiesPanelOpen,
                   history, nextId>>

\* clearSelection (domainStore.ts 373-378)
clearSelection ==
    /\ selectedNodeIds' = <<>>
    /\ selectedEdgeIds' = <<>>
    /\ UNCHANGED <<activeContextId, contexts, contextMaps, validationResult,
                   isPaletteOpen, isPropertiesPanelOpen, history, nextId>>

\* addContextMap (domainStore.ts 334-341)
addContextMap(map) ==
    /\ CanGenerateId
    /\ CanRecord
    /\ LET id == nextId
       IN  /\ nextId' = nextId + 1
           /\ history' = saveToHistory(history, CurrentState)
           /\ contextMaps' = Append(contextMaps,
                                    [id |-> id,
                                     name |-> map.name,
                                     sourceContextId |-> map.sourceContextId,
                                     targetContextId |-> map.targetContextId,
                                     pattern |-> map.pattern,
                                     mappings |-> map.mappings])
    /\ UNCHANGED <<activeContextId, contexts, selectedNodeIds, selectedEdgeIds,
                   validationResult, isPaletteOpen, isPropertiesPanelOpen>>

\* state.contexts with context contextId replaced by F(context)
UpdateContext(ctxs, contextId, F(_)) ==
    MapSeq(LAMBDA c : IF c.id = contextId THEN F(c) ELSE c, ctxs)

\* context.nodes[nodeId] exists
HasNode(context, nodeId) ==
    \E i \in 1..Len(context.nodes) : context.nodes[i].id = nodeId

\* context.nodes[nodeId].node, for an id that is a key
NodeOf(context, nodeId) ==
    context.nodes[CHOOSE i \in 1..Len(context.nodes) : context.nodes[i].id = nodeId].node

\* addNode (domainStore.ts 183-192)
addNode(contextId, node, position) ==
    /\ CanGenerateId
    /\ CanRecord
    /\ LET id == nextId
       IN  /\ nextId' = nextId + 1
           /\ history' = saveToHistory(history, CurrentState)
           /\ contexts' = UpdateContext(contexts, contextId,
                  LAMBDA c : [c EXCEPT !.nodes =
                      Append(@, [id |-> id, node |-> node, position |-> position])])
    /\ UNCHANGED <<activeContextId, contextMaps, selectedNodeIds, selectedEdgeIds,
                   validationResult, isPaletteOpen, isPropertiesPanelOpen>>

\* deleteNode (domainStore.ts 204-218): the context after the call
ContextWithoutNode(context, nodeId) ==
    [context EXCEPT
        !.nodes = SelectSeq(@, LAMBDA n : n.id # nodeId),
        !.morphisms = SelectSeq(@, LAMBDA m : m.sourceId # nodeId
                                              /\ m.targetId # nodeId)]

\* deleteNode (domainStore.ts 204-218)
deleteNode(contextId, nodeId) ==
    /\ CanRecord
    /\ history' = saveToHistory(history, CurrentState)
    /\ contexts' = UpdateContext(contexts, contextId,
                                 LAMBDA c : ContextWithoutNode(c, nodeId))
    /\ selectedNodeIds' =
          IF HasContext(contexts, contextId)
          THEN SelectSeq(selectedNodeIds, LAMBDA id : id # nodeId)
          ELSE selectedNodeIds
    /\ UNCHANGED <<activeContextId, contextMaps, selectedEdgeIds,
                   validationResult, isPaletteOpen, isPropertiesPanelOpen, nextId>>

\* addMorphism (domainStore.ts 298-307)
addMorphism(contextId, morphism) ==
    /\ CanGenerateId
    /\ CanRecord
    /\ LET id == nextId
       IN  /\ nextId' = nextId + 1
           /\ history' = saveToHistory(history, CurrentState)
           /\ contexts' = UpdateContext(contexts, contextId,
                  LAMBDA c : [c EXCEPT !.morphisms =
                      Append(@, [id |-> id,
                                 name |-> morphism.name,
                                 sourceId |-> morphism.sourceId,
                                 targetId |-> morphism.targetId,
                                 cardinality |-> morphism.cardinality])])
    /\ UNCHANGED <<activeContextId, contextMaps, selectedNodeIds, selectedEdgeIds,
                   validationResult, isPaletteOpen, isPropertiesPanelOpen>>

\* an undo that goes back to the oldest snapshot
UndoToOldest(h, current) ==
    IF Len(h.past) = 0 THEN [state |-> current, history |-> h]
    ELSE [state |-> h.past[1],
          history |-> [past |-> Tail(h.past),
                       future |-> Append(h.future, current)]]

\* undo (domainStore.ts 401-407) with get() = current: the state set and
\* the history left; nothing happens when history.past is empty
UndoOutcome(h, current) ==
    IF Len(h.past) = 0 THEN [state |-> current, history |-> h]
    ELSE [state |-> h.past[Len(h.past)],
          history |-> [past |-> SubSeq(h.past, 1, Len(h.past) - 1),
                       future |-> Append(h.future, current)]]

\* redo (domainStore.ts 409-415) with get() = current
RedoOutcome(h, current) ==
    IF Len(h.future) = 0 THEN [state |-> current, history |-> h]
    ELSE [state |-> h.future[Len(h.future)],
          history |-> [past |-> Append(h.past, current),
                       future |-> SubSeq(h.future, 1, Len(h.future) - 1)]]

\* undo (domainStore.ts 401-407)
undo ==
    /\ Len(history.past) # 0
    /\ history' = UndoOutcome(history, CurrentState).history
    /\ SetState(UndoOutcome(history, CurrentState).state)
    /\ UNCHANGED nextId

\* redo (domainStore.ts 409-415)
redo ==
    /\ Len(history.future) # 0
    /\ history' = RedoOutcome(history, CurrentState).history
    /\ SetState(RedoOutcome(history, CurrentState).state)
    /\ UNCHANGED nextId

\* togglePalette (domainStore.ts 388-392)
togglePalette ==
    /\ isPaletteOpen' = ~isPaletteOpen
    /\ UNCHANGED <<activeContextId, contexts, contextMaps, selectedNodeIds,
                   selectedEdgeIds, validationResult, isPropertiesPanelOpen,
                   history, nextId>>

\* togglePropertiesPanel (domainStore.ts 394-398)
togglePropertiesPanel ==
    /\ isPropertiesPanelOpen' = ~isPropertiesPanelOpen
    /\ UNCHANGED <<activeContextId, contexts, contextMaps, selectedNodeIds,
                   selectedEdgeIds, validationResult, isPaletteOpen,
                   history, nextId>>

\* canUndo and canRedo (domainStore.ts 417-418)
canUndo == Len(history.past) > 0

canRedo == Len(history.future) > 0

\* a reset that leaves the two stacks as they are
KeptHistory == history

\* history.past = []; history.future = [] (domainStore.ts 600-601)
ClearedHistory == [past |-> <<>>, future |-> <<>>]

\* reset (domainStore.ts 598-602), called by SettingsPanel.handleReset
reset ==
    /\ SetState(initialState)
    /\ history' = ClearedHistory
    /\ UNCHANGED nextId

\* an onConnect that looks for an existing map in its own direction only
ConnectOneWay(source, target) ==
    /\ source # NoId /\ target # NoId
    /\ source # target
    /\ ~ \E i \in 1..Len(contextMaps) :
            /\ contextMaps[i].sourceContextId = source
            /\ contextMaps[i].targetContextId = target
    /\ addContextMap([name |-> ContextOf(contexts, source).name \o " -> "
                                  \o ContextOf(contexts, target).name,
                      sourceContextId |-> source,
                      targetContextId |-> target,
                      pattern |-> "CustomerSupplier",
                      mappings |-> <<>>])

\* ContextMapCanvas.onConnect (Header.tsx 310-359)
onConnect(source, target) ==
    /\ source # NoId /\ target # NoId
    /\ source # target
    /\ ~ \E i \in 1..Len(contextMaps) :
            \/ (contextMaps[i].sourceContextId = source
                /\ contextMaps[i].targetContextId = target)
            \/ (contextMaps[i].sourceContextId = target
                /\ contextMaps[i].targetContextId = source)
    /\ addContextMap([name |-> ContextOf(contexts, source).name \o " -> "
                                  \o ContextOf(contexts, target).name,
                      sourceContextId |-> source,
                      targetContextId |-> target,
                      pattern |-> "CustomerSupplier",
                      mappings |-> <<>>])

(***************************************************************************)
(* importModel of .sddd text.                                              *)
(***************************************************************************)
\* isWasmInitialized (wasm/index.ts 38-40)
isWasmInitialized == wasmModule # "null"

\* f => ({id, name: f.name, type: f.type_name, optional: f.optional || false})
ImportedFields(fields) ==
    MapSeq(LAMBDA f : [name |-> f.name, type |-> f.type_name, optional |-> f.optional],
           fields)

\* the objects of a parsed context in the order importModel walks them:
\* entities, value objects, enums, aggregates (domainStore.ts 469-559)
ParsedObjects(ctx) ==
    MapSeq(LAMBDA e : [kind |-> "entity", info |-> e], ctx.entities)
    \o MapSeq(LAMBDA v : [kind |-> "value", info |-> v], ctx.value_objects)
    \o MapSeq(LAMBDA e : [kind |-> "enum", info |-> e], ctx.enums)
    \o MapSeq(LAMBDA a : [kind |-> "aggregate", info |-> a], ctx.aggregates)

\* nodeIdMap[name] || '' once the first k objects have been walked, the k-th
\* object having id first + k - 1: a later object of the same name overwrites
NodeIdMapAfter(objects, first, k, name) ==
    LET hits == {j \in 1..k : objects[j].info.name = name}
    IN  IF hits = {} THEN NoId
        ELSE first + (CHOOSE j \in hits : \A h \in hits : h <= j) - 1

\* the position of the k-th object: x += 250, wrapping to a new row after 800
ImportedPosition(k) == <<50 + 250 * ((k - 1) % 4), 50 + 200 * ((k - 1) \div 4)>>

\* the rootId of the aggregate walked as object k (domainStore.ts 543, 548):
\* its own name is in nodeIdMap before its root is looked up
ImportedRootId(objects, first, k) ==
    IF objects[k].info.root = "" THEN NoId
    ELSE NodeIdMapAfter(objects, first, k, objects[k].info.root)

\* the node built for the k-th object (domainStore.ts 473-553)
ImportedNode(objects, first, k) ==
    LET o == objects[k]
    IN  CASE o.kind = "entity" ->
                [kind |-> "entity", name |-> o.info.name,
                 fields |-> ImportedFields(o.info.fields)]
          [] o.kind = "value" ->
                [kind |-> "value", name |-> o.info.name,
                 fields |-> ImportedFields(o.info.fields)]
          [] o.kind = "enum" ->
                [kind |-> "enum", name |-> o.info.name,
                 variants |-> MapSeq(LAMBDA v : [name |-> v.name,
                                                 payload |-> IF v.has_payload
                                                             THEN "unknown" ELSE ""],
                                     o.info.variants)]
          [] o.kind = "aggregate" ->
                [kind |-> "aggregate", name |-> o.info.name,
                 rootId |-> ImportedRootId(objects, first, k),
                 memberIds |-> SelectSeq(
                     MapSeq(LAMBDA m : NodeIdMapAfter(objects, first, k, m),
                            o.info.contains),
                     LAMBDA id : id # NoId),
                 invariants |-> <<>>]

\* nodes once the first k objects have been walked
RECURSIVE ImportedNodes(_, _, _)
ImportedNodes(objects, first, k) ==
    IF k = 0 THEN <<>>
    ELSE Append(ImportedNodes(objects, first, k - 1),
                [id |-> first + k - 1,
                 node |-> ImportedNode(objects, first, k),
                 position |-> ImportedPosition(k)])

\* the morphisms whose source and target are in nodeIdMap, ids from firstId on
\* (domainStore.ts 562-574)
RECURSIVE ImportedMorphisms(_, _, _, _)
ImportedMorphisms(morphs, objects, first, firstId) ==
    IF morphs = <<>> THEN <<>>
    ELSE LET morph == Head(morphs)
             sourceId == NodeIdMapAfter(objects, first, Len(objects), morph.source)
             targetId == NodeIdMapAfter(objects, first, Len(objects), morph.target)
         IN  IF sourceId # NoId /\ targetId # NoId
             THEN <<[id |-> firstId, sourceId |-> sourceId, targetId |-> targetId,
                     name |-> IF morph.name = "" THEN "relates to" ELSE morph.name,
                     cardinality |-> "one"]>>
                  \o ImportedMorphisms(Tail(morphs), objects, first, firstId + 1)
             ELSE ImportedMorphisms(Tail(morphs), objects, first, firstId)

\* the ContextData built for one parsed context, its id being contextId and
\* the ids of its nodes and morphisms following (domainStore.ts 460-584)
ImportedContext(ctx, contextId) ==
    LET objects == ParsedObjects(ctx)
        first == contextId + 1
    IN  [id |-> contextId,
         name |-> ctx.name,
         nodes |-> ImportedNodes(objects, first, Len(objects)),
         morphisms |-> ImportedMorphisms(ctx.morphisms, objects, first,
                                         first + Len(objects))]

\* how many ids the conversion of a context draws
IdsDrawn(context) == 1 + Len(context.nodes) + Len(context.morphisms)

\* the contexts built for result.data.contexts, ids from firstId on
RECURSIVE ImportedContexts(_, _)
ImportedContexts(parsed, firstId) ==
    IF parsed = <<>> THEN <<>>
    ELSE LET context == ImportedContext(Head(parsed), firstId)
         IN  <<context>> \o ImportedContexts(Tail(parsed), firstId + IdsDrawn(context))

RECURSIVE SumIdsDrawn(_)
SumIdsDrawn(ctxs) ==
    IF ctxs = <<>> THEN 0 ELSE IdsDrawn(Head(ctxs)) + SumIdsDrawn(Tail(ctxs))

\* importModel (domainStore.ts 427-596) of text that is not JSON and that
\* wasmParse turns into result.data = data
importModel(data) ==
    /\ isWasmInitialized
    /\ CanGenerateId
    /\ CanRecord
    /\ LET imported == ImportedContexts(data.contexts, nextId)
       IN  /\ nextId' = nextId + SumIdsDrawn(imported)
           /\ history' = saveToHistory(history, CurrentState)
           /\ contexts' = imported
           /\ contextMaps' = <<>>
           /\ activeContextId' = IF Len(imported) > 0 THEN imported[1].id ELSE NoId
           /\ selectedNodeIds' = <<>>
           /\ selectedEdgeIds' = <<>>
    /\ UNCHANGED <<validationResult, isPaletteOpen, isPropertiesPanelOpen>>

\* importModel (domainStore.ts 427-444) of JSON text: data.contexts and
\* data.contextMaps are <<>> when the key is absent, <<value>> otherwise
importModelJson(data) ==
    /\ CanRecord
    /\ history' = saveToHistory(history, CurrentState)
    /\ LET loaded == IF data.contexts # <<>> THEN data.contexts[1] ELSE contexts
       IN  /\ contexts' = loaded
           /\ contextMaps' = IF data.contextMaps # <<>> THEN data.contextMaps[1]
                             ELSE contextMaps
           /\ activeContextId' = IF Len(loaded) > 0 THEN loaded[1].id ELSE NoId
    /\ selectedNodeIds' = <<>>
    /\ selectedEdgeIds' = <<>>
    /\ UNCHANGED <<validationResult, isPaletteOpen, isPropertiesPanelOpen, nextId>>

\* the id of a context of a file written by exportModel in another session
ExportedContextId == MaxIds + 1

\* JSON files handed to importModel: {}, an exported empty model and an
\* exported model with two contexts, one value object and one morphism
JsonModels ==
    {[contexts |-> <<>>, contextMaps |-> <<>>],
     [contexts |-> <<<<>>>>, contextMaps |-> <<<<>>>>],
     [contexts |-> <<<<[id |-> ExportedContextId, name |-> "Billing",
                        nodes |-> <<[id |-> ExportedContextId + 1,
                                     node |-> [kind |-> "value", name |-> "Money",
                                               fields |-> <<>>],
                                     position |-> <<50, 50>>]>>,
                        morphisms |-> <<[id |-> ExportedContextId + 2,
                                         name |-> "relates to",
                                         sourceId |-> ExportedContextId + 1,
                                         targetId |-> ExportedContextId + 1,
                                         cardinality |-> "one"]>>],
                       [id |-> ExportedContextId + 3, name |-> "Shipping",
                        nodes |-> <<>>, morphisms |-> <<>>]>>>>,
      contextMaps |-> <<<<>>>>]}

\* the parsed models handed to importModel: what the parser reports for .sddd
\* text that declares some of the objects of the README's Commerce example
ParsedOrder ==
    [name |-> "Order",
     fields |-> <<[name |-> "id", type_name |-> "UUID", optional |-> FALSE]>>]

ParsedLineItem == [name |-> "LineItem", fields |-> <<>>]

ParsedMoney ==
    [name |-> "Money",
     fields |-> <<[name |-> "amount", type_name |-> "Decimal", optional |-> FALSE]>>]

ParsedStatus ==
    [name |-> "Status",
     variants |-> <<[name |-> "Pending", has_payload |-> FALSE],
                    [name |-> "Shipped", has_payload |-> TRUE]>>]

ParsedAggregates ==
    {<<>>} \cup {<<[name |-> n, root |-> r, contains |-> c]>> :
                    n \in {"Order", "OrderAggregate"},
                    r \in {"", "Order", "Money"},
                    c \in {<<"LineItem">>}}

ParsedMorphisms ==
    {<<>>, <<[name |-> "items", source |-> "Order", target |-> "LineItem"],
             [name |-> "", source |-> "LineItem", target |-> "Money"]>>}

ParsedContexts ==
    {[name |-> "Commerce", objects |-> o, entities |-> e, value_objects |-> v,
      enums |-> n, aggregates |-> a, morphisms |-> m] :
        o \in {<<"Customer", "Product">>},
        e \in {<<>>, <<ParsedOrder, ParsedLineItem>>},
        v \in {<<>>, <<ParsedMoney>>},
        n \in {<<>>, <<ParsedStatus>>},
        a \in ParsedAggregates,
        m \in ParsedMorphisms}

ParsedModels ==
    {[contexts |-> <<>>]} \cup {[contexts |-> <<c>>] : c \in ParsedContexts}

(***************************************************************************)
(* The palette's building blocks and the guided wizards.                   *)
(***************************************************************************)
\* the node handleAddBlock builds for a kind (BuildingBlocks, CodeGenPanel.tsx 324-360)
\* field and variant ids are left out: only updateField, deleteField,
\* updateVariant and deleteVariant read them
BlockNode(kind) ==
    CASE kind = "entity" ->
            [kind |-> "entity", name |-> "NewEntity",
             fields |-> <<[name |-> "id", type |-> "UUID", optional |-> FALSE]>>]
      [] kind = "value" ->
            [kind |-> "value", name |-> "NewValue", fields |-> <<>>]
      [] kind = "enum" ->
            [kind |-> "enum", name |-> "NewEnum",
             variants |-> <<[name |-> "Variant1", payload |-> ""]>>]
      [] kind = "aggregate" ->
            [kind |-> "aggregate", name |-> "NewAggregate", rootId |-> NoId,
             memberIds |-> <<>>, invariants |-> <<>>]

\* where handleAddBlock may drop a block: 100 + Math.random() * 200 on each axis
BlockPositions == {<<100, 100>>}

\* handleAddBlock (BuildingBlocks, CodeGenPanel.tsx 318-369)
handleAddBlock(kind) ==
    /\ activeContextId # NoId
    /\ \E position \in BlockPositions :
          addNode(activeContextId, BlockNode(kind), position)

\* const activeContext = activeContextId ? contexts[activeContextId] : null
HasActiveContext == activeContextId # NoId /\ HasContext(contexts, activeContextId)

activeContext == ContextOf(contexts, activeContextId)

\* AggregateWizard: entities (AggregateWizard.tsx 26-31), as {id, name} in node order
entities ==
    IF ~HasActiveContext THEN <<>>
    ELSE MapSeq(LAMBDA n : [id |-> n.id, name |-> n.node.name],
                SelectSeq(activeContext.nodes, LAMBDA n : n.node.kind = "entity"))

\* BuildingBlocks: setShowAggregateWizard(true) (CodeGenPanel.tsx 452)
openAggregateWizard ==
    /\ ~aggregateWizard.isOpen
    /\ aggregateWizard' = [aggregateWizard EXCEPT !.isOpen = TRUE]

\* WizardModal.handleClose (WizardModal.tsx 44-47) of the AggregateWizard
closeAggregateWizard ==
    /\ aggregateWizard.isOpen
    /\ aggregateWizard' = [aggregateWizard EXCEPT !.isOpen = FALSE, !.currentStep = 0]

\* the root entity button's onClick (AggregateWizard.tsx 117-120)
selectRoot(entity) ==
    /\ aggregateWizard.isOpen
    /\ aggregateWizard.currentStep = 0
    /\ aggregateWizard' =
          [aggregateWizard EXCEPT
              !.rootId = entity.id,
              !.name = IF @ = "" THEN entity.name \o "Aggregate" ELSE @]

\* toggleMember (AggregateWizard.tsx 35-42): memberIds after the call
ToggledMembers(rootId, memberIds, id) ==
    IF id = rootId THEN memberIds
    ELSE IF Includes(memberIds, id)
         THEN SelectSeq(memberIds, LAMBDA m : m # id)
         ELSE Append(memberIds, id)

\* a member button's onClick (AggregateWizard.tsx 158-163): only the entities
\* other than the current root have a button
toggleMember(id) ==
    /\ aggregateWizard.isOpen
    /\ aggregateWizard.currentStep = 1
    /\ id # aggregateWizard.rootId
    /\ aggregateWizard' =
          [aggregateWizard EXCEPT
              !.memberIds = ToggledMembers(aggregateWizard.rootId, @, id)]

\* steps[i].isValid of the AggregateWizard (AggregateWizard.tsx 80, 142, 206)
AggregateStepIsValid(w) ==
    IF w.currentStep = 0 THEN w.name # "" /\ w.rootId # NoId ELSE TRUE

\* invariants.filter(inv => inv.trim()) (AggregateWizard.tsx 59)
ValidInvariants(invariants) == SelectSeq(invariants, LAMBDA inv : inv # "")

LastAggregateStep == 2

\* AggregateWizard.handleFinish (AggregateWizard.tsx 56-74)
aggregateHandleFinish(after) ==
    IF activeContextId = NoId \/ aggregateWizard.name = ""
       \/ aggregateWizard.rootId = NoId
    THEN /\ aggregateWizard' = after
         /\ UNCHANGED <<storeVars, history, nextId>>
    ELSE /\ addNode(activeContextId,
                    [kind |-> "aggregate",
                     name |-> aggregateWizard.name,
                     rootId |-> aggregateWizard.rootId,
                     memberIds |-> aggregateWizard.memberIds,
                     invariants |-> ValidInvariants(aggregateWizard.invariants)],
                    <<300, 200>>)
         /\ aggregateWizard' = [after EXCEPT !.name = "", !.rootId = NoId,
                                              !.memberIds = <<>>,
                                              !.invariants = <<"">>]

\* WizardModal.handleNext (WizardModal.tsx 30-38) of the AggregateWizard; the
\* button is disabled unless the step is valid (WizardModal.tsx 28, 130)
aggregateHandleNext ==
    /\ aggregateWizard.isOpen
    /\ AggregateStepIsValid(aggregateWizard)
    /\ IF aggregateWizard.currentStep = LastAggregateStep
       THEN aggregateHandleFinish([aggregateWizard EXCEPT !.isOpen = FALSE,
                                                         !.currentStep = 0])
       ELSE /\ aggregateWizard' = [aggregateWizard EXCEPT !.currentStep = @ + 1]
            /\ UNCHANGED <<storeVars, history, nextId>>

\* WizardModal.handleBack (WizardModal.tsx 40-42); disabled on the first step
aggregateHandleBack ==
    /\ aggregateWizard.isOpen
    /\ aggregateWizard.currentStep # 0
    /\ aggregateWizard' =
          [aggregateWizard EXCEPT
              !.currentStep = IF @ - 1 > 0 THEN @ - 1 ELSE 0]

\* ConnectConceptsWizard: nodes (NewConceptWizard.tsx 345-350)
connectableNodes ==
    IF ~HasActiveContext THEN <<>>
    ELSE MapSeq(LAMBDA n : [id |-> n.id, name |-> n.node.name, kind |-> n.node.kind],
                SelectSeq(activeContext.nodes, LAMBDA n : n.node.kind # "aggregate"))

\* nodes.find(n => n.id === id)?.name || '' (NewConceptWizard.tsx 352-353)
ConnectableName(id) ==
    IF \E i \in 1..Len(connectableNodes) : connectableNodes[i].id = id
    THEN connectableNodes[CHOOSE i \in 1..Len(connectableNodes) :
                             connectableNodes[i].id = id].name
    ELSE ""

\* str.charAt(0).toLowerCase() + str.slice(1), on the names of the model
LowerFirst(str) ==
    CASE str = "NewEntity" -> "newEntity"
      [] str = "NewValue" -> "newValue"
      [] str = "NewEnum" -> "newEnum"
      [] str = "Customer" -> "customer"
      [] str = "Order" -> "order"
      [] str = "LineItem" -> "lineItem"
      [] str = "Money" -> "money"
      [] str = "Status" -> "status"
      [] OTHER -> str

\* suggestedName (NewConceptWizard.tsx 356-363)
suggestedName ==
    LET sourceName == ConnectableName(connectWizard.sourceId)
        targetName == ConnectableName(connectWizard.targetId)
    IN  IF sourceName = "" \/ targetName = "" THEN ""
        ELSE IF connectWizard.cardinality = "many"
             THEN LowerFirst(targetName) \o "s"
             ELSE LowerFirst(targetName)

\* BuildingBlocks: setShowConnectWizard(true) (CodeGenPanel.tsx 439)
openConnectWizard ==
    /\ ~connectWizard.isOpen
    /\ connectWizard' = [connectWizard EXCEPT !.isOpen = TRUE]

\* WizardModal.handleClose (WizardModal.tsx 44-47) of the ConnectConceptsWizard
closeConnectWizard ==
    /\ connectWizard.isOpen
    /\ connectWizard' = [connectWizard EXCEPT !.isOpen = FALSE, !.currentStep = 0]

\* the source select's onChange (NewConceptWizard.tsx 391-402)
setSourceId(id) ==
    /\ connectWizard.isOpen
    /\ connectWizard.currentStep = 0
    /\ connectWizard' = [connectWizard EXCEPT !.sourceId = id]

\* the target select's onChange; the option of the source is disabled
\* (NewConceptWizard.tsx 411-422)
setTargetId(id) ==
    /\ connectWizard.isOpen
    /\ connectWizard.currentStep = 0
    /\ id = NoId \/ id # connectWizard.sourceId
    /\ connectWizard' = [connectWizard EXCEPT !.targetId = id]

Cardinalities == {"one", "optional", "many"}

\* the cardinality buttons (NewConceptWizard.tsx 443-492)
setCardinality(cardinality) ==
    /\ connectWizard.isOpen
    /\ connectWizard.currentStep = 1
    /\ connectWizard' = [connectWizard EXCEPT !.cardinality = cardinality]

\* the name input's onChange (NewConceptWizard.tsx 505-508)
setMorphismName(name) ==
    /\ connectWizard.isOpen
    /\ connectWizard.currentStep = 2
    /\ connectWizard' = [connectWizard EXCEPT !.name = name]

\* "Use suggested" (NewConceptWizard.tsx 513-519)
useSuggestedName ==
    /\ connectWizard.isOpen
    /\ connectWizard.currentStep = 2
    /\ suggestedName # ""
    /\ connectWizard.name = ""
    /\ connectWizard' = [connectWizard EXCEPT !.name = suggestedName]

\* steps[i].isValid of the ConnectConceptsWizard (NewConceptWizard.tsx 386, 434, 500)
ConnectStepIsValid(w) ==
    CASE w.currentStep = 0 ->
            w.sourceId # NoId /\ w.targetId # NoId /\ w.sourceId # w.targetId
      [] w.currentStep = 1 -> TRUE
      [] OTHER -> w.name # ""

LastConnectStep == 2

\* ConnectConceptsWizard.handleFinish (NewConceptWizard.tsx 365-380)
connectHandleFinish(after) ==
    IF activeContextId = NoId \/ connectWizard.sourceId = NoId
       \/ connectWizard.targetId = NoId \/ connectWizard.name = ""
    THEN /\ connectWizard' = after
         /\ UNCHANGED <<storeVars, history, nextId>>
    ELSE /\ addMorphism(activeContextId,
                        [name |-> connectWizard.name,
                         sourceId |-> connectWizard.sourceId,
                         targetId |-> connectWizard.targetId,
                         cardinality |-> connectWizard.cardinality])
         /\ connectWizard' = [after EXCEPT !.sourceId = NoId, !.targetId = NoId,
                                           !.cardinality = "one", !.name = ""]

\* WizardModal.handleNext (WizardModal.tsx 30-38) of the ConnectConceptsWizard
connectHandleNext ==
    /\ connectWizard.isOpen
    /\ ConnectStepIsValid(connectWizard)
    /\ IF connectWizard.currentStep = LastConnectStep
       THEN connectHandleFinish([connectWizard EXCEPT !.isOpen = FALSE,
                                                     !.currentStep = 0])
       ELSE /\ connectWizard' = [connectWizard EXCEPT !.currentStep = @ + 1]
            /\ UNCHANGED <<storeVars, history, nextId>>

\* WizardModal.handleBack (WizardModal.tsx 40-42) of the ConnectConceptsWizard
connectHandleBack ==
    /\ connectWizard.isOpen
    /\ connectWizard.currentStep # 0
    /\ connectWizard' =
          [connectWizard EXCEPT !.currentStep = IF @ - 1 > 0 THEN @ - 1 ELSE 0]

\* what the user types as a relationship name
MorphismNames == {"items"}

ContextNames == {"Commerce"}

(***************************************************************************)
(* Code generation.  A generated text is kept as the sequence of its       *)
(* lines, so lines.join('\n') of no line at all is the one empty line.     *)
(***************************************************************************)
Join(lines) == IF lines = <<>> THEN <<"">> ELSE lines

\* Array.prototype.join of strings with a separator, '' for no string
RECURSIVE JoinStrings(_, _)
JoinStrings(strs, sep) ==
    IF strs = <<>> THEN ""
    ELSE IF Len(strs) = 1 THEN strs[1]
    ELSE strs[1] \o sep \o JoinStrings(Tail(strs), sep)

\* String.prototype.trim of a text whose lines carry no outer whitespace of
\* their own: the empty lines at both ends go
RECURSIVE TrimStart(_)
TrimStart(lines) ==
    IF lines = <<>> THEN <<>>
    ELSE IF Head(lines) = "" THEN TrimStart(Tail(lines)) ELSE lines

RECURSIVE TrimEnd(_)
TrimEnd(lines) ==
    IF lines = <<>> THEN <<>>
    ELSE IF lines[Len(lines)] = "" THEN TrimEnd(SubSeq(lines, 1, Len(lines) - 1))
    ELSE lines

Trim(lines) == Join(TrimEnd(TrimStart(lines)))

\* String.prototype.toLowerCase on the names of the objects
toLowerCase(str) ==
    CASE str = "Order" -> "order"
      [] str = "LineItem" -> "lineitem"
      [] str = "Money" -> "money"
      [] str = "Status" -> "status"
      [] str = "OrderAggregate" -> "orderaggregate"
      [] str = "Customer" -> "customer"
      [] str = "id" -> "id"
      [] str = "Id" -> "id"
      [] str = "email" -> "email"

\* String.prototype.toUpperCase on the names of the variants
toUpperCase(str) ==
    CASE str = "Pending" -> "PENDING"
      [] str = "Shipped" -> "SHIPPED"

\* capitalize (java.ts 32-34): str.charAt(0).toUpperCase() + str.slice(1)
capitalize(str) ==
    CASE str = "id" -> "Id"
      [] str = "amount" -> "Amount"
      [] str = "Order" -> "Order"
      [] str = "LineItem" -> "LineItem"
      [] str = "Money" -> "Money"
      [] str = "Status" -> "Status"
      [] str = "OrderAggregate" -> "OrderAggregate"
      [] str = "items" -> "Items"
      [] str = "order" -> "Order"
      [] str = "orders" -> "Orders"
      [] str = "lineItem" -> "LineItem"
      [] str = "lineItems" -> "LineItems"
      [] str = "relates to" -> "Relates to"
      [] str = "email" -> "Email"
      [] str = "Id" -> "Id"
      [] str = "name" -> "Name"
      [] str = "Customer" -> "Customer"

\* context.name.replace(/\s+/g, '')
WithoutWhitespace(str) ==
    CASE str = "Commerce" -> "Commerce"
      [] str = "Order Management" -> "OrderManagement"

\* new Date().toISOString() at the clock's millisecond
toISOString(ms) == "2025-01-01T00:00:00.00" \o ToString(ms) \o "Z"

\* nodes[id]?.node as a sequence: empty when id is not a key
NodeAt(context, id) ==
    IF HasNode(context, id) THEN <<NodeOf(context, id)>> ELSE <<>>

\* the options generateCode hands to a generator (codegen/index.ts 17-25)
OptionsOf(language, options) ==
    [language |-> language,
     includeComments |-> options.includeComments,
     generateInterfaces |-> options.generateInterfaces,
     generateClasses |-> options.generateClasses,
     namespace |-> options.namespace,
     packageName |-> options.packageName]

(***************************************************************************)
(* NewConceptWizard (NewConceptWizard.tsx 13-317).                         *)
(***************************************************************************)
\* String.prototype.trim on what the user types
trim(str) == IF str = " " THEN "" ELSE str

\* BuildingBlocks: setShowNewConceptWizard(true) (CodeGenPanel.tsx 426)
openConceptWizard ==
    /\ ~conceptWizard.isOpen
    /\ HasActiveContext => Len(activeContext.nodes) < MaxConcepts
    /\ conceptWizard' = [conceptWizard EXCEPT !.isOpen = TRUE]

\* WizardModal.handleClose (WizardModal.tsx 44-47) of the NewConceptWizard
closeConceptWizard ==
    /\ conceptWizard.isOpen
    /\ conceptWizard' = [conceptWizard EXCEPT !.isOpen = FALSE, !.currentStep = 0]

\* the name input's onChange (NewConceptWizard.tsx 101)
setConceptName(name) ==
    /\ conceptWizard.isOpen
    /\ conceptWizard.currentStep = 0
    /\ conceptWizard' = [conceptWizard EXCEPT !.name = name]

\* "Yes" and "No" of the identity question (NewConceptWizard.tsx 140, 150)
setHasIdentity(answer) ==
    /\ conceptWizard.isOpen
    /\ conceptWizard.currentStep = 1
    /\ conceptWizard' = [conceptWizard EXCEPT !.hasIdentity = answer]

\* the immutability question, shown when hasIdentity === false
\* (NewConceptWizard.tsx 162-177)
setIsImmutable(answer) ==
    /\ conceptWizard.isOpen
    /\ conceptWizard.currentStep = 1
    /\ conceptWizard.hasIdentity = "false"
    /\ conceptWizard' = [conceptWizard EXCEPT !.isImmutable = answer]

\* the direct choice of a type (NewConceptWizard.tsx 195, 209)
setConceptType(type) ==
    /\ conceptWizard.isOpen
    /\ conceptWizard.currentStep = 1
    /\ conceptWizard' = [conceptWizard EXCEPT !.conceptType = type]

\* addField (NewConceptWizard.tsx 30-32)
addField ==
    /\ conceptWizard.isOpen
    /\ conceptWizard.currentStep = 2
    /\ Len(conceptWizard.fields) < MaxFields
    /\ conceptWizard' =
          [conceptWizard EXCEPT
              !.fields = Append(@, [name |-> "", type |-> "String", optional |-> FALSE])]

\* updateField (NewConceptWizard.tsx 34-36): {...f, ...updates} at index
updateField(index, updates) ==
    /\ conceptWizard.isOpen
    /\ conceptWizard.currentStep = 2
    /\ index \in 1..Len(conceptWizard.fields)
    /\ conceptWizard' =
          [conceptWizard EXCEPT
              !.fields[index] = [k \in DOMAIN @ |-> IF k \in DOMAIN updates
                                                    THEN updates[k] ELSE @[k]]]

\* removeField (NewConceptWizard.tsx 38-40); the button is there when the
\* form has more than one field (NewConceptWizard.tsx 274-281)
removeField(index) ==
    /\ conceptWizard.isOpen
    /\ conceptWizard.currentStep = 2
    /\ Len(conceptWizard.fields) > 1
    /\ index \in 1..Len(conceptWizard.fields)
    /\ conceptWizard' =
          [conceptWizard EXCEPT
              !.fields = SubSeq(@, 1, index - 1) \o SubSeq(@, index + 1, Len(@))]

\* determineType (NewConceptWizard.tsx 43-49)
determineType(w) ==
    IF w.conceptType # "null" THEN w.conceptType
    ELSE IF w.hasIdentity = "true" THEN "entity"
    ELSE IF w.hasIdentity = "false" /\ w.isImmutable = "true" THEN "value"
    ELSE IF w.isImmutable = "false" THEN "entity"
    ELSE "null"

\* fields.filter(f => f.name.trim()) (NewConceptWizard.tsx 57-59); the ids of
\* the fields are left out as in BlockNode
validFields(w) == SelectSeq(w.fields, LAMBDA f : trim(f.name) # "")

\* the fields of the entity handleFinish adds (NewConceptWizard.tsx 61-66)
EntityFields(fields) ==
    IF \E i \in 1..Len(fields) : toLowerCase(fields[i].name) = "id"
    THEN fields
    ELSE <<[name |-> "id", type |-> "UUID", optional |-> FALSE]>> \o fields

\* steps[i].isValid of the NewConceptWizard (NewConceptWizard.tsx 93, 125, 230)
ConceptStepIsValid(w) ==
    CASE w.currentStep = 0 -> trim(w.name) # ""
      [] w.currentStep = 1 -> determineType(w) # "null"
      [] OTHER -> \E i \in 1..Len(w.fields) : trim(w.fields[i].name) # ""

LastConceptStep == 2

\* NewConceptWizard.handleFinish (NewConceptWizard.tsx 51-87)
conceptHandleFinish(after) ==
    IF activeContextId = NoId \/ conceptWizard.name = ""
       \/ determineType(conceptWizard) = "null"
    THEN /\ conceptWizard' = after
         /\ UNCHANGED <<storeVars, history, nextId>>
    ELSE /\ addNode(activeContextId,
                    IF determineType(conceptWizard) = "entity"
                    THEN [kind |-> "entity", name |-> conceptWizard.name,
                          fields |-> EntityFields(validFields(conceptWizard))]
                    ELSE [kind |-> "value", name |-> conceptWizard.name,
                          fields |-> validFields(conceptWizard)],
                    <<200, 200>>)
         /\ conceptWizard' =
               [after EXCEPT !.name = "", !.conceptType = "null",
                             !.hasIdentity = "null", !.isImmutable = "null",
                             !.fields = <<[name |-> "", type |-> "String",
                                           optional |-> FALSE]>>]

\* WizardModal.handleNext (WizardModal.tsx 30-38) of the NewConceptWizard
conceptHandleNext ==
    /\ conceptWizard.isOpen
    /\ ConceptStepIsValid(conceptWizard)
    /\ IF conceptWizard.currentStep = LastConceptStep
       THEN conceptHandleFinish([conceptWizard EXCEPT !.isOpen = FALSE,
                                                     !.currentStep = 0])
       ELSE /\ conceptWizard' = [conceptWizard EXCEPT !.currentStep = @ + 1]
            /\ UNCHANGED <<storeVars, history, nextId>>

\* WizardModal.handleBack (WizardModal.tsx 40-42) of the NewConceptWizard
conceptHandleBack ==
    /\ conceptWizard.isOpen
    /\ conceptWizard.currentStep # 0
    /\ conceptWizard' =
          [conceptWizard EXCEPT !.currentStep = IF @ - 1 > 0 THEN @ - 1 ELSE 0]

\* what the user types as the name of a concept and of a field
ConceptNames == {"Customer", " "}

FieldNames == {"", "id", "email"}

\* the options of the type select the model uses (NewConceptWizard.tsx 258-264)
FieldTypes == {"String", "UUID"}

\* the updates the inputs of a field row hand to updateField
\* (NewConceptWizard.tsx 249, 255, 270)
FieldUpdates ==
    {[name |-> n] : n \in FieldNames}
    \cup {[type |-> t] : t \in FieldTypes}
    \cup {[optional |-> o] : o \in BOOLEAN}

(***************************************************************************)
(* The TypeScript generator (codegen/typescript.ts).                       *)
(***************************************************************************)
mapTypeToTS(type) ==
    CASE type \in {"string", "String", "uuid", "UUID"} -> "string"
      [] type \in {"int", "integer", "Int", "Integer", "float", "Float",
                   "double", "Double", "number", "Number"} -> "number"
      [] type \in {"boolean", "Boolean", "bool", "Bool"} -> "boolean"
      [] type \in {"date", "Date", "datetime", "DateTime"} -> "Date"
      [] OTHER -> type

\* the members an entity gets from the morphisms that leave it
RelationshipLinesTS(node, morphisms, context) ==
    LET leaving == SelectSeq(morphisms,
                       LAMBDA m : /\ HasNode(context, m.sourceId)
                                  /\ NodeOf(context, m.sourceId).name = node.name)
        Member(m) ==
            IF ~HasNode(context, m.targetId) THEN <<>>
            ELSE LET targetNode == NodeOf(context, m.targetId)
                     cardinality == IF m.cardinality = "many" THEN "[]"
                                    ELSE IF m.cardinality = "optional" THEN " | null"
                                    ELSE ""
                 IN  <<"  " \o m.name
                       \o (IF m.cardinality = "optional" THEN "?" ELSE "")
                       \o ": " \o targetNode.name \o cardinality \o ";">>
    IN  Flatten(MapSeq(Member, leaving))

generateEntityTS(node, morphisms, context, options) ==
    LET FieldLine(field) ==
            "  " \o field.name \o (IF field.optional THEN "?" ELSE "") \o ": "
            \o mapTypeToTS(field.type) \o ";"
        Assignment(field) ==
            "    this." \o field.name \o " = data." \o field.name \o ";"
    IN  Join(
        (IF options.includeComments
         THEN <<"/**", " * Entity: " \o node.name,
                " * An entity with a unique identity", " */">>
         ELSE <<>>)
        \o (IF options.generateInterfaces
            THEN <<"export interface " \o node.name \o " {",
                   "  readonly id: string;">>
                 \o MapSeq(FieldLine, node.fields)
                 \o RelationshipLinesTS(node, morphisms, context)
                 \o <<"}">>
            ELSE <<>>)
        \o (IF options.generateClasses
            THEN <<"",
                   "export class " \o node.name \o "Impl implements " \o node.name \o " {",
                   "  readonly id: string;">>
                 \o MapSeq(FieldLine, node.fields)
                 \o <<"",
                      "  constructor(data: Omit<" \o node.name \o ", 'id'> & { id?: string }) {",
                      "    this.id = data.id ?? crypto.randomUUID();">>
                 \o MapSeq(Assignment, node.fields)
                 \o <<"  }", "}">>
            ELSE <<>>))

generateValueObjectTS(node, options) ==
    LET InterfaceLine(field) ==
            "  readonly " \o field.name \o (IF field.optional THEN "?" ELSE "") \o ": "
            \o mapTypeToTS(field.type) \o ";"
        ClassLine(field) ==
            "  readonly " \o field.name \o ": " \o mapTypeToTS(field.type) \o ";"
        Assignment(field) ==
            "    this." \o field.name \o " = data." \o field.name \o ";"
        Same(f) == "this." \o f.name \o " === other." \o f.name
        same == JoinStrings(MapSeq(Same, node.fields), " && ")
    IN  Join(
        (IF options.includeComments
         THEN <<"/**", " * Value Object: " \o node.name,
                " * An immutable value type identified by its attributes", " */">>
         ELSE <<>>)
        \o (IF options.generateInterfaces
            THEN <<"export interface " \o node.name \o " {">>
                 \o MapSeq(InterfaceLine, node.fields)
                 \o <<"}">>
            ELSE <<>>)
        \o (IF options.generateClasses
            THEN <<"",
                   "export class " \o node.name \o "Impl implements " \o node.name \o " {">>
                 \o MapSeq(ClassLine, node.fields)
                 \o <<"", "  constructor(data: " \o node.name \o ") {">>
                 \o MapSeq(Assignment, node.fields)
                 \o <<"  }",
                      "",
                      "  equals(other: " \o node.name \o "): boolean {",
                      "    return " \o (IF same = "" THEN "true" ELSE same) \o ";",
                      "  }",
                      "}">>
            ELSE <<>>))

generateEnumTS(node, options) ==
    LET hasPayloads == \E i \in 1..Len(node.variants) : node.variants[i].payload # ""
        last == Len(node.variants)
        UnionLine(index) ==
            LET variant == node.variants[index]
                separator == IF index = last THEN ";" ELSE ""
            IN  IF variant.payload # ""
                THEN "  | { type: '" \o variant.name \o "'; value: "
                     \o mapTypeToTS(variant.payload) \o " }" \o separator
                ELSE "  | { type: '" \o variant.name \o "' }" \o separator
        EnumLine(index) ==
            LET variant == node.variants[index]
                comma == IF index < last THEN "," ELSE ""
            IN  "  " \o variant.name \o " = '" \o variant.name \o "'" \o comma
    IN  Join(
        (IF options.includeComments
         THEN <<"/**", " * Enum: " \o node.name, " */">>
         ELSE <<>>)
        \o (IF hasPayloads
            THEN <<"export type " \o node.name \o " =">>
                 \o [index \in 1..last |-> UnionLine(index)]
            ELSE <<"export enum " \o node.name \o " {">>
                 \o [index \in 1..last |-> EnumLine(index)]
                 \o <<"}">>))

\* the comment lines every backend's aggregate starts with, after its opening
AggregateCommentLines(node, context, prefix) ==
    (IF HasNode(context, node.rootId)
     THEN <<prefix \o " Root Entity: " \o NodeOf(context, node.rootId).name>>
     ELSE <<>>)
    \o (IF Len(node.invariants) > 0
        THEN <<prefix \o " ", prefix \o " Invariants:">>
             \o MapSeq(LAMBDA inv : prefix \o " - " \o inv, node.invariants)
        ELSE <<>>)

\* node.memberIds.map(id => nodes[id]?.node).filter(Boolean)
MemberNodes(node, context) ==
    Flatten(MapSeq(LAMBDA id : NodeAt(context, id), node.memberIds))

generateAggregateTS(node, context, options) ==
    LET rootNode == NodeAt(context, node.rootId)
        memberNodes == MemberNodes(node, context)
        Collection(member) ==
            "  " \o toLowerCase(member.name) \o "s: " \o member.name \o "[];"
    IN  Join(
        (IF options.includeComments
         THEN <<"/**", " * Aggregate: " \o node.name>>
              \o AggregateCommentLines(node, context, " *")
              \o <<" */">>
         ELSE <<>>)
        \o <<"export interface " \o node.name \o "Aggregate {">>
        \o (IF rootNode # <<>> THEN <<"  root: " \o rootNode[1].name \o ";">> ELSE <<>>)
        \o MapSeq(Collection, memberNodes)
        \o <<"}">>)

\* walking the nodes in the order of Object.entries alone
DeclaredOrder(nodeEntries) == nodeEntries

\* the order generateTypeScript walks the nodes in: enums first, then value
\* objects, entities and aggregates, each kind in the order of Object.entries
TypeScriptOrder(nodeEntries) ==
    SelectSeq(nodeEntries, LAMBDA data : data.node.kind = "enum")
    \o SelectSeq(nodeEntries, LAMBDA data : data.node.kind = "value")
    \o SelectSeq(nodeEntries, LAMBDA data : data.node.kind = "entity")
    \o SelectSeq(nodeEntries, LAMBDA data : data.node.kind = "aggregate")

\* what generateTypeScript pushes for one node, the empty line after it included
TypeScriptItem(data, context, options) ==
    (CASE data.node.kind = "enum" -> generateEnumTS(data.node, options)
       [] data.node.kind = "value" -> generateValueObjectTS(data.node, options)
       [] data.node.kind = "entity" ->
            generateEntityTS(data.node, context.morphisms, context, options)
       [] data.node.kind = "aggregate" ->
            generateAggregateTS(data.node, context, options))
    \o <<"">>

generateTypeScript(context, options) ==
    LET header == IF options.includeComments
                  THEN <<"/**",
                         " * Generated by SketchDDD",
                         " * Context: " \o context.name,
                         " * Generated at: " \o toISOString(now),
                         " */",
                         "">>
                  ELSE <<>>
        items == Flatten(MapSeq(LAMBDA data : TypeScriptItem(data, context, options),
                                TypeScriptOrder(context.nodes)))
    IN  [filename |-> WithoutWhitespace(context.name) \o ".ts",
         content |-> Trim(header \o items),
         language |-> "typescript"]

(***************************************************************************)
(* The Java generator (codegen/java.ts).                                   *)
(***************************************************************************)
mapTypeToJava(type) ==
    CASE type \in {"string", "String"} -> "String"
      [] type \in {"int", "integer"} -> "int"
      [] type \in {"Int", "Integer"} -> "Integer"
      [] type = "float" -> "float"
      [] type = "Float" -> "Float"
      [] type \in {"double", "number"} -> "double"
      [] type \in {"Double", "Number"} -> "Double"
      [] type \in {"boolean", "bool"} -> "boolean"
      [] type \in {"Boolean", "Bool"} -> "Boolean"
      [] type \in {"date", "Date"} -> "LocalDate"
      [] type \in {"datetime", "DateTime"} -> "LocalDateTime"
      [] type \in {"uuid", "UUID"} -> "UUID"
      [] OTHER -> type

\* options.packageName || 'com.example.domain'
PackageNameOf(options) ==
    IF options.packageName = "" THEN "com.example.domain" ELSE options.packageName

generateEntityJava(node, options) ==
    LET FieldLine(field) ==
            "    private " \o mapTypeToJava(field.type) \o " " \o field.name \o ";"
        Accessors(field) ==
            LET javaType == mapTypeToJava(field.type)
                capName == capitalize(field.name)
            IN  <<"",
                  "    public " \o javaType \o " get" \o capName \o "() {",
                  "        return " \o field.name \o ";",
                  "    }",
                  "",
                  "    public void set" \o capName \o "(" \o javaType \o " "
                      \o field.name \o ") {",
                  "        this." \o field.name \o " = " \o field.name \o ";",
                  "    }">>
    IN  Join(
        <<"package " \o PackageNameOf(options) \o ";",
          "",
          "import java.util.UUID;",
          "import java.util.Objects;",
          "">>
        \o (IF options.includeComments
            THEN <<"/**", " * Entity: " \o node.name,
                   " * An entity with a unique identity", " */">>
            ELSE <<>>)
        \o <<"public class " \o node.name \o " {",
             "",
             "    private final UUID id;">>
        \o MapSeq(FieldLine, node.fields)
        \o <<"",
             "    public " \o node.name \o "() {",
             "        this.id = UUID.randomUUID();",
             "    }",
             "",
             "    public " \o node.name \o "(UUID id) {",
             "        this.id = id;",
             "    }",
             "",
             "    public UUID getId() {",
             "        return id;",
             "    }">>
        \o Flatten(MapSeq(Accessors, node.fields))
        \o <<"",
             "    @Override",
             "    public boolean equals(Object o) {",
             "        if (this == o) return true;",
             "        if (o == null || getClass() != o.getClass()) return false;",
             "        " \o node.name \o " that = (" \o node.name \o ") o;",
             "        return Objects.equals(id, that.id);",
             "    }",
             "",
             "    @Override",
             "    public int hashCode() {",
             "        return Objects.hash(id);",
             "    }",
             "}">>)

generateValueObjectJava(node, options) ==
    LET FieldLine(field) ==
            "    private final " \o mapTypeToJava(field.type) \o " " \o field.name \o ";"
        Param(f) == mapTypeToJava(f.type) \o " " \o f.name
        params == JoinStrings(MapSeq(Param, node.fields), ", ")
        Assignment(field) ==
            "        this." \o field.name \o " = " \o field.name \o ";"
        Getter(field) ==
            <<"",
              "    public " \o mapTypeToJava(field.type) \o " get"
                  \o capitalize(field.name) \o "() {",
              "        return " \o field.name \o ";",
              "    }">>
        Same(f) == "Objects.equals(" \o f.name \o ", that." \o f.name \o ")"
        same == JoinStrings(MapSeq(Same, node.fields), " && ")
        equalsCondition == IF same = "" THEN "true" ELSE same
        hashFields == JoinStrings(MapSeq(LAMBDA f : f.name, node.fields), ", ")
    IN  Join(
        <<"package " \o PackageNameOf(options) \o ";",
          "",
          "import java.util.Objects;",
          "">>
        \o (IF options.includeComments
            THEN <<"/**", " * Value Object: " \o node.name,
                   " * An immutable value type identified by its attributes", " */">>
            ELSE <<>>)
        \o <<"public final class " \o node.name \o " {", "">>
        \o MapSeq(FieldLine, node.fields)
        \o <<"", "    public " \o node.name \o "(" \o params \o ") {">>
        \o MapSeq(Assignment, node.fields)
        \o <<"    }">>
        \o Flatten(MapSeq(Getter, node.fields))
        \o <<"",
             "    @Override",
             "    public boolean equals(Object o) {",
             "        if (this == o) return true;",
             "        if (o == null || getClass() != o.getClass()) return false;",
             "        " \o node.name \o " that = (" \o node.name \o ") o;",
             "        return " \o equalsCondition \o ";",
             "    }",
             "",
             "    @Override",
             "    public int hashCode() {",
             "        return Objects.hash(" \o hashFields \o ");",
             "    }",
             "}">>)

generateEnumJava(node, options) ==
    LET last == Len(node.variants)
        VariantLine(index) ==
            "    " \o toUpperCase(node.variants[index].name)
            \o (IF index < last THEN "," ELSE ";")
    IN  Join(
        <<"package " \o PackageNameOf(options) \o ";", "">>
        \o (IF options.includeComments
            THEN <<"/**", " * Enum: " \o node.name, " */">>
            ELSE <<>>)
        \o <<"public enum " \o node.name \o " {">>
        \o [index \in 1..last |-> VariantLine(index)]
        \o <<"}">>)

generateAggregateJava(node, context, options) ==
    LET rootNode == NodeAt(context, node.rootId)
        memberNodes == MemberNodes(node, context)
        FieldLine(memberNode) ==
            "    private final List<" \o memberNode.name \o "> "
            \o toLowerCase(memberNode.name) \o "s;"
        InitLine(memberNode) ==
            "        this." \o toLowerCase(memberNode.name) \o "s = new ArrayList<>();"
        Operations(memberNode) ==
            <<"",
              "    public List<" \o memberNode.name \o "> get"
                  \o capitalize(memberNode.name) \o "s() {",
              "        return new ArrayList<>(" \o toLowerCase(memberNode.name) \o "s);",
              "    }",
              "",
              "    public void add" \o memberNode.name \o "(" \o memberNode.name
                  \o " item) {",
              "        this." \o toLowerCase(memberNode.name) \o "s.add(item);",
              "    }">>
    IN  Join(
        <<"package " \o PackageNameOf(options) \o ";",
          "",
          "import java.util.List;",
          "import java.util.ArrayList;",
          "">>
        \o (IF options.includeComments
            THEN <<"/**", " * Aggregate: " \o node.name>>
                 \o AggregateCommentLines(node, context, " *")
                 \o <<" */">>
            ELSE <<>>)
        \o <<"public class " \o node.name \o "Aggregate {", "">>
        \o (IF rootNode # <<>>
            THEN <<"    private final " \o rootNode[1].name \o " root;">>
            ELSE <<>>)
        \o MapSeq(FieldLine, memberNodes)
        \o <<"",
             "    public " \o node.name \o "Aggregate("
                 \o (IF rootNode # <<>> THEN rootNode[1].name \o " root" ELSE "")
                 \o ") {">>
        \o (IF rootNode # <<>> THEN <<"        this.root = root;">> ELSE <<>>)
        \o MapSeq(InitLine, memberNodes)
        \o <<"    }", "">>
        \o (IF rootNode # <<>>
            THEN <<"    public " \o rootNode[1].name \o " getRoot() {",
                   "        return root;",
                   "    }">>
            ELSE <<>>)
        \o Flatten(MapSeq(Operations, memberNodes))
        \o <<"}">>)

\* the file generateJava makes of one node
JavaFile(data, context, options) ==
    [filename |-> IF data.node.kind = "aggregate"
                  THEN data.node.name \o "Aggregate.java"
                  ELSE data.node.name \o ".java",
     content |-> CASE data.node.kind = "entity" -> generateEntityJava(data.node, options)
                   [] data.node.kind = "value" ->
                        generateValueObjectJava(data.node, options)
                   [] data.node.kind = "enum" -> generateEnumJava(data.node, options)
                   [] data.node.kind = "aggregate" ->
                        generateAggregateJava(data.node, context, options),
     language |-> "java"]

generateJava(context, options) ==
    MapSeq(LAMBDA data : JavaFile(data, context, options), context.nodes)

(***************************************************************************)
(* The C# generator (codegen/csharp.ts).                                   *)
(***************************************************************************)
mapTypeToCSharp(type) ==
    CASE type \in {"string", "String"} -> "string"
      [] type \in {"int", "integer", "Int", "Integer"} -> "int"
      [] type \in {"float", "Float"} -> "float"
      [] type \in {"double", "Double", "number", "Number"} -> "double"
      [] type \in {"boolean", "Boolean", "bool", "Bool"} -> "bool"
      [] type \in {"date", "Date"} -> "DateOnly"
      [] type \in {"datetime", "DateTime"} -> "DateTime"
      [] type \in {"uuid", "UUID"} -> "Guid"
      [] OTHER -> type

\* options.namespace || 'Domain'
NamespaceOf(options) ==
    IF options.namespace = "" THEN "Domain" ELSE options.namespace

generateEntityCSharp(node, options) ==
    LET Property(field) ==
            "    public" \o (IF field.optional THEN "" ELSE " required") \o " "
            \o mapTypeToCSharp(field.type) \o (IF field.optional THEN "?" ELSE "")
            \o " " \o capitalize(field.name) \o " { get; set; }"
    IN  Join(
        <<"namespace " \o NamespaceOf(options) \o ";", "">>
        \o (IF options.includeComments
            THEN <<"/// <summary>", "/// Entity: " \o node.name,
                   "/// An entity with a unique identity", "/// </summary>">>
            ELSE <<>>)
        \o <<"public class " \o node.name,
             "{",
             "    public Guid Id { get; init; } = Guid.NewGuid();",
             "">>
        \o MapSeq(Property, node.fields)
        \o <<"",
             "    public override bool Equals(object? obj)",
             "    {",
             "        if (obj is not " \o node.name \o " other) return false;",
             "        return Id == other.Id;",
             "    }",
             "",
             "    public override int GetHashCode() => Id.GetHashCode();",
             "}">>)

generateValueObjectCSharp(node, options) ==
    LET Param(f) ==
            mapTypeToCSharp(f.type) \o (IF f.optional THEN "?" ELSE "") \o " "
            \o capitalize(f.name)
        params == JoinStrings(MapSeq(Param, node.fields), ", ")
    IN  Join(
        <<"namespace " \o NamespaceOf(options) \o ";", "">>
        \o (IF options.includeComments
            THEN <<"/// <summary>", "/// Value Object: " \o node.name,
                   "/// An immutable value type identified by its attributes",
                   "/// </summary>">>
            ELSE <<>>)
        \o <<"public record " \o node.name \o "(" \o params \o ");">>)

generateEnumCSharp(node, options) ==
    LET last == Len(node.variants)
        VariantLine(index) ==
            "    " \o node.variants[index].name \o (IF index < last THEN "," ELSE "")
    IN  Join(
        <<"namespace " \o NamespaceOf(options) \o ";", "">>
        \o (IF options.includeComments
            THEN <<"/// <summary>", "/// Enum: " \o node.name, "/// </summary>">>
            ELSE <<>>)
        \o <<"public enum " \o node.name, "{">>
        \o [index \in 1..last |-> VariantLine(index)]
        \o <<"}">>)

generateAggregateCSharp(node, context, options) ==
    LET rootNode == NodeAt(context, node.rootId)
        memberNodes == MemberNodes(node, context)
        Backing(memberNode) ==
            "    private readonly List<" \o memberNode.name \o "> _"
            \o toLowerCase(memberNode.name) \o "s = new();"
        Property(memberNode) ==
            "    public IReadOnlyList<" \o memberNode.name \o "> " \o memberNode.name
            \o "s => _" \o toLowerCase(memberNode.name) \o "s.AsReadOnly();"
        Operations(memberNode) ==
            <<"",
              "    public void Add" \o memberNode.name \o "(" \o memberNode.name
                  \o " item)",
              "    {",
              "        // TODO: Validate invariants before adding",
              "        _" \o toLowerCase(memberNode.name) \o "s.Add(item);",
              "    }",
              "",
              "    public bool Remove" \o memberNode.name \o "(" \o memberNode.name
                  \o " item)",
              "    {",
              "        return _" \o toLowerCase(memberNode.name) \o "s.Remove(item);",
              "    }">>
    IN  Join(
        <<"namespace " \o NamespaceOf(options) \o ";", "">>
        \o (IF options.includeComments
            THEN <<"/// <summary>", "/// Aggregate: " \o node.name>>
                 \o AggregateCommentLines(node, context, "///")
                 \o <<"/// </summary>">>
            ELSE <<>>)
        \o <<"public class " \o node.name \o "Aggregate", "{">>
        \o MapSeq(Backing, memberNodes)
        \o (IF Len(node.memberIds) > 0 THEN <<"">> ELSE <<>>)
        \o (IF rootNode # <<>>
            THEN <<"    public required " \o rootNode[1].name \o " Root { get; init; }">>
            ELSE <<>>)
        \o MapSeq(Property, memberNodes)
        \o Flatten(MapSeq(Operations, memberNodes))
        \o <<"}">>)

\* the file generateCSharp makes of one node
CSharpFile(data, context, options) ==
    [filename |-> IF data.node.kind = "aggregate"
                  THEN data.node.name \o "Aggregate.cs"
                  ELSE data.node.name \o ".cs",
     content |-> CASE data.node.kind = "entity" ->
                        generateEntityCSharp(data.node, options)
                   [] data.node.kind = "value" ->
                        generateValueObjectCSharp(data.node, options)
                   [] data.node.kind = "enum" -> generateEnumCSharp(data.node, options)
                   [] data.node.kind = "aggregate" ->
                        generateAggregateCSharp(data.node, context, options),
     language |-> "csharp"]

generateCSharp(context, options) ==
    MapSeq(LAMBDA data : CSharpFile(data, context, options), context.nodes)

(***************************************************************************)
(* generateCode and the code generation panel.                             *)
(***************************************************************************)
\* generateCode (codegen/index.ts 12-37)
generateCode(context, language, options) ==
    LET defaultOptions == OptionsOf(language, options)
    IN  CASE language = "typescript" -> <<generateTypeScript(context, defaultOptions)>>
          [] language = "java" -> generateJava(context, defaultOptions)
          [] language = "csharp" -> generateCSharp(context, defaultOptions)

\* the value of the generatedFiles memo for a store and the panel's settings
GeneratedFor(ctxs, contextId, panel) ==
    IF contextId = NoId \/ ~HasContext(ctxs, contextId) THEN <<>>
    ELSE generateCode(ContextOf(ctxs, contextId), panel.selectedLanguage, panel)

languages == {"typescript", "java", "csharp"}

\* the dependencies of the generatedFiles memo that live in the panel
MemoDeps(panel) ==
    <<panel.selectedLanguage, panel.includeComments, panel.generateInterfaces,
      panel.generateClasses, panel.namespace, panel.packageName>>

\* a state update of the panel and the render after it: the memo is evaluated
\* again when one of its dependencies differs (CodeGenPanel.tsx 31-46)
SetPanel(panel) ==
    /\ panel # codeGenPanel
    /\ codeGenPanel' = panel
    /\ generatedFiles' = IF MemoDeps(panel) = MemoDeps(codeGenPanel)
                         THEN generatedFiles
                         ELSE GeneratedFor(contexts, activeContextId, panel)
    /\ UNCHANGED <<storeVars, history, nextId, now>>

\* the language buttons (CodeGenPanel.tsx 99-123); which file the preview
\* shows (selectedFileIndex) is view state that is left out
setSelectedLanguage(lang) ==
    /\ HasActiveContext
    /\ SetPanel([codeGenPanel EXCEPT !.selectedLanguage = lang])

\* the check boxes (CodeGenPanel.tsx 131-161)
setIncludeComments(checked) ==
    /\ HasActiveContext
    /\ SetPanel([codeGenPanel EXCEPT !.includeComments = checked])

setGenerateInterfaces(checked) ==
    /\ HasActiveContext
    /\ codeGenPanel.selectedLanguage = "typescript"
    /\ SetPanel([codeGenPanel EXCEPT !.generateInterfaces = checked])

setGenerateClasses(checked) ==
    /\ HasActiveContext
    /\ codeGenPanel.selectedLanguage = "typescript"
    /\ SetPanel([codeGenPanel EXCEPT !.generateClasses = checked])

\* the text inputs (CodeGenPanel.tsx 166-188)
PackageNames == {"com.example.domain", "com.acme.sales"}

Namespaces == {"Domain", "Acme.Sales"}

setPackageName(value) ==
    /\ HasActiveContext
    /\ codeGenPanel.selectedLanguage = "java"
    /\ SetPanel([codeGenPanel EXCEPT !.packageName = value])

setNamespace(value) ==
    /\ HasActiveContext
    /\ codeGenPanel.selectedLanguage = "csharp"
    /\ SetPanel([codeGenPanel EXCEPT !.namespace = value])

\* the validation results a validation run may hand to the store
ValidationResults ==
    {[valid |-> TRUE, error_count |-> 0, warning_count |-> 0, issues |-> <<>>],
     [valid |-> FALSE, error_count |-> 1, warning_count |-> 0,
      issues |-> <<[severity |-> "error", code |-> "E0001",
                    message |-> "aggregate root is not an entity"]>>]}

\* setValidationResult (domainStore.ts 381-385): the panel renders again, the
\* context it reads is the same object and the memo is kept
setValidationResult(result) ==
    /\ validationResult' = <<result>>
    /\ UNCHANGED <<activeContextId, contexts, contextMaps, selectedNodeIds,
                   selectedEdgeIds, isPaletteOpen, isPropertiesPanelOpen,
                   history, nextId, codeGenPanel, generatedFiles, now>>

\* the clock new Date() reads moves on
Tick ==
    /\ now < MaxNow
    /\ now' = now + 1
    /\ UNCHANGED <<storeVars, history, nextId, codeGenPanel, generatedFiles>>

(***************************************************************************)
(* The WASM wrapper (wasm/index.ts).                                       *)
(***************************************************************************)
\* who calls initWasm(): the App's mount effect is the first caller
Callers == 1..MaxCallers

AppCaller == 1

\* a second initWasm that keeps no initPromise: every call that finds no
\* module starts a load of its own
StartsLoadAlways == TRUE

\* if (!initPromise): the call starts the load
StartsLoad == initPromise = "null"

\* initWasm (wasm/index.ts 21-33) up to its await: a call that finds the
\* module returns, the first of the others starts the async function, which
\* runs up to its await import(...), and all of them await initPromise
initWasm(c) ==
    /\ initCalls[c] # "awaiting"
    /\ IF wasmModule # "null"
       THEN /\ initCalls' = [initCalls EXCEPT ![c] = "resolved"]
            /\ UNCHANGED <<initPromise, wasmLoader>>
       ELSE /\ initCalls' = [initCalls EXCEPT ![c] = "awaiting"]
            /\ IF StartsLoad
               THEN /\ initPromise' = "pending"
                    /\ wasmLoader' = [wasmLoader EXCEPT !.pc = "importing",
                                                        !.imports = @ + 1]
               ELSE UNCHANGED <<initPromise, wasmLoader>>
    /\ UNCHANGED <<wasmModule, lastCall, moduleCalls>>

\* await import('./sketchddd_wasm') settles: the function goes on to call
\* wasm.default(), or throws and initPromise is rejected
importSettles(ok) ==
    /\ wasmLoader.pc = "importing"
    /\ IF ok
       THEN /\ wasmLoader' = [wasmLoader EXCEPT !.pc = "initializing", !.inits = @ + 1]
            /\ UNCHANGED initPromise
       ELSE /\ wasmLoader' = [wasmLoader EXCEPT !.pc = "failed"]
            /\ initPromise' = "rejected"
    /\ UNCHANGED <<wasmModule, initCalls, lastCall, moduleCalls>>

\* await wasm.default() settles: wasmModule = wasm and initPromise is
\* fulfilled, or the function throws and initPromise is rejected
defaultSettles(ok) ==
    /\ wasmLoader.pc = "initializing"
    /\ IF ok
       THEN /\ wasmModule' = "loaded"
            /\ wasmLoader' = [wasmLoader EXCEPT !.pc = "done"]
            /\ initPromise' = "fulfilled"
       ELSE /\ wasmLoader' = [wasmLoader EXCEPT !.pc = "failed"]
            /\ initPromise' = "rejected"
            /\ UNCHANGED wasmModule
    /\ UNCHANGED <<initCalls, lastCall, moduleCalls>>

\* await initPromise of a call goes on once the promise is settled
initWasmResumes(c) ==
    /\ initCalls[c] = "awaiting"
    /\ initPromise \in {"fulfilled", "rejected"}
    /\ initCalls' = [initCalls EXCEPT ![c] = IF initPromise = "fulfilled"
                                             THEN "resolved" ELSE "rejected"]
    /\ UNCHANGED <<wasmModule, initPromise, wasmLoader, lastCall, moduleCalls>>

\* the wrapper functions and the function of the module each of them calls
\* (wasm/index.ts 45-104)
ModuleFunction ==
    [getVersion |-> "version",
     parse |-> "parse",
     validateSource |-> "validate_source",
     generateCode |-> "generate_code",
     generateViz |-> "generate_viz",
     formatSource |-> "format_source",
     getSupportedTargets |-> "supported_targets",
     getSupportedVizFormats |-> "supported_viz_formats"]

WrapperFunctions == DOMAIN ModuleFunction

\* a guard that takes the start of the initialisation for its end
InitNotStarted == initPromise = "null"

\* if (!wasmModule)
ModuleMissing == wasmModule = "null"

\* a call of a wrapper function
callWrapper(fn) ==
    /\ IF ModuleMissing
       THEN /\ lastCall' = <<[fn |-> fn,
                              threw |-> "WASM module not initialized. Call initWasm() first."]>>
            /\ UNCHANGED moduleCalls
       ELSE /\ lastCall' = <<[fn |-> fn, threw |-> ""]>>
            /\ moduleCalls' = moduleCalls \cup {ModuleFunction[fn]}
    /\ UNCHANGED <<wasmModule, initPromise, wasmLoader, initCalls>>

\* the App's mount effect and the load it starts (App.tsx 18-28)
AppInitWasm ==
    \/ initCalls[AppCaller] = "idle" /\ initWasm(AppCaller)
    \/ \E ok \in BOOLEAN : importSettles(ok)
    \/ \E ok \in BOOLEAN : defaultSettles(ok)
    \/ initWasmResumes(AppCaller)

(***************************************************************************)
(* The validator's results (wasm/types.ts 82-97, ADR-0005, ADR-0009).      *)
(* Names are sequences of characters, so that edit distances are computed. *)
(***************************************************************************)
Customer == <<"C", "u", "s", "t", "o", "m", "e", "r">>

Custommer == <<"C", "u", "s", "t", "o", "m", "m", "e", "r">>

Order == <<"O", "r", "d", "e", "r">>

Orders == <<"O", "r", "d", "e", "r", "s">>

Orderz == <<"O", "r", "d", "e", "r", "z">>

Odr == <<"O", "d", "r">>

Product == <<"P", "r", "o", "d", "u", "c", "t">>

Money == <<"M", "o", "n", "e", "y">>

Min2(x, y) == IF x <= y THEN x ELSE y

\* one row of the edit-distance table: the distances of a prefix of a that
\* ends with ch to every prefix of b, from the row of the prefix before it;
\* the tests of Len have each row computed before the next one is started
RECURSIVE LevenshteinRow(_, _, _, _, _)
LevenshteinRow(prev, ch, b, j, row) ==
    IF j > Len(b) THEN row
    ELSE LET cost == IF ch = b[j] THEN 0 ELSE 1
             cell == Min2(Min2(prev[j + 1] + 1, row[j] + 1), prev[j] + cost)
             next == Append(row, cell)
         IN  IF Len(next) = j + 1
             THEN LevenshteinRow(prev, ch, b, j + 1, next)
             ELSE <<>>

RECURSIVE LevenshteinRows(_, _, _, _)
LevenshteinRows(a, b, i, prev) ==
    IF i > Len(a) THEN prev
    ELSE LET row == LevenshteinRow(prev, a[i], b, 1, <<i>>)
         IN  IF Len(row) = Len(b) + 1
             THEN LevenshteinRows(a, b, i + 1, row)
             ELSE <<>>

\* levenshtein(name, c): insertions, deletions and substitutions of characters
levenshtein(a, b) ==
    LevenshteinRows(a, b, 1, [j \in 1..(Len(b) + 1) |-> j - 1])[Len(b) + 1]

\* a lookup that keeps the last of the closest candidates
LastMinimum(distances) ==
    CHOOSE i \in 1..Len(distances) :
        /\ \A j \in 1..Len(distances) : distances[i] <= distances[j]
        /\ \A j \in (i + 1)..Len(distances) : distances[j] > distances[i]

\* min_by_key(|(_, d)| *d): the index of the first of the smallest distances
FirstMinimum(distances) ==
    CHOOSE i \in 1..Len(distances) :
        /\ \A j \in 1..Len(distances) : distances[i] <= distances[j]
        /\ \A j \in 1..(i - 1) : distances[j] > distances[i]

\* suggest_similar (ADR-0009): Some(candidate) as <<candidate>>, None as <<>>
suggest_similar(name, candidates, max_distance) ==
    LET scored == MapSeq(LAMBDA c : <<c, levenshtein(name, c)>>, candidates)
        within == SelectSeq(scored, LAMBDA pair : pair[2] <= max_distance)
        distances == MapSeq(LAMBDA pair : pair[2], within)
    IN  IF within = <<>> THEN <<>> ELSE <<within[FirstMinimum(distances)][1]>>

\* the largest distance at which a name is suggested:
\* min(3, ceil(0.3 * len(name)))
maxEditDistance(name) == Min2(3, (3 * Len(name) + 9) \div 10)

\* Index.nearest over allNames(), the names of the objects in insertion order
nearest(allNames, name) == suggest_similar(name, allNames, maxEditDistance(name))

\* the codes of the morphism reference pass (ADR-0005, Error Code Ranges)
MorphismReferenceCodes ==
    {"E0001", "E0002", "E0003", "E0004", "E0005", "E0006", "E0007", "E0008", "E0009"}

\* the code of the duplicate name range that one example shows instead
DuplicateRangeCode == "E0023"

\* error[E0001]: the code of an unresolved reference of a morphism
ReferenceCode == "E0001"

\* the references of the morphisms in the order the pass walks them: the
\* source and then the target of each morphism
MorphismReferences(morphisms) ==
    Flatten(MapSeq(
        LAMBDA i : <<[morphism |-> i, end |-> "source", name |-> morphisms[i].source],
                     [morphism |-> i, end |-> "target", name |-> morphisms[i].target]>>,
        [i \in 1..Len(morphisms) |-> i]))

\* the references whose name no object of the context has
Unresolved(model) ==
    SelectSeq(MorphismReferences(model.morphisms),
              LAMBDA r : ~Includes(model.objects, r.name))

\* the diagnostic of one unresolved reference: a suggestion when nearest()
\* finds a name, a note listing allNames() otherwise
ReferenceDiagnostic(model, r) ==
    LET found == nearest(model.objects, r.name)
    IN  [severity |-> "error",
         code |-> ReferenceCode,
         message |-> <<<<"Unknown object">>, r.name, <<"referenced in morphism">>,
                       <<model.morphisms[r.morphism].name>>>>,
         name |-> <<r.name>>,
         spans |-> <<[morphism |-> r.morphism, end |-> r.end]>>,
         suggestions |-> MapSeq(LAMBDA c : [message |-> "did you mean", replacement |-> c],
                                found),
         notes |-> IF found = <<>> THEN model.objects ELSE <<>>]

\* grouping from two diagnostics on
GroupedFromTwo(count) == count >= 2

\* three or more diagnostics that share an unresolved name are grouped
Grouped(count) == count >= 3

\* the diagnostics of a pass after grouping: the first diagnostic of a
\* grouped name carries the spans of all of them, the others are dropped
GroupDiagnostics(raw) ==
    LET SameName(i) == {j \in 1..Len(raw) : raw[j].name = raw[i].name}
        IsFirst(i) == \A j \in SameName(i) : i <= j
        Spans(i) == Flatten(MapSeq(LAMBDA j : raw[j].spans,
                                   SelectSeq([j \in 1..Len(raw) |-> j],
                                             LAMBDA j : j \in SameName(i))))
        Kept == SelectSeq([i \in 1..Len(raw) |-> i],
                          LAMBDA i : Grouped(Cardinality(SameName(i))) => IsFirst(i))
    IN  MapSeq(LAMBDA i : IF Grouped(Cardinality(SameName(i)))
                          THEN [raw[i] EXCEPT
                                   !.message = <<<<"Multiple morphisms reference unknown object">>,
                                                 raw[i].name[1]>>,
                                   !.spans = Spans(i)]
                          ELSE raw[i],
               Kept)

\* the morphism reference pass
MorphismReferencePass(model) ==
    GroupDiagnostics(MapSeq(LAMBDA r : ReferenceDiagnostic(model, r), Unresolved(model)))

\* every pass runs: the diagnostics of the reference pass, then those of
\* the other passes
Diagnostics(model) == MorphismReferencePass(model) \o model.others

\* a result that is valid only without any issue
NoIssues(issues) == issues = <<>>

\* is_ok(): no errors, warnings are acceptable (ADR-0005)
is_ok(issues) == \A i \in 1..Len(issues) : issues[i].severity # "error"

\* has_issues(): any issues, errors, warnings or hints (ADR-0005)
has_issues(issues) == issues # <<>>

\* the ValidationResult of a list of issues (wasm/types.ts 82-87)
ValidationResultOf(issues) ==
    [valid |-> is_ok(issues),
     error_count |-> Len(SelectSeq(issues, LAMBDA issue : issue.severity = "error")),
     warning_count |-> Len(SelectSeq(issues, LAMBDA issue : issue.severity = "warning")),
     issues |-> issues]

\* validation of a model: every pass runs and the result is built
validate ==
    /\ validation # <<>>
    /\ validation[1].result = <<>>
    /\ LET diagnostics == Diagnostics(validation[1].model)
       IN  validation' =
              <<[validation[1] EXCEPT
                    !.diagnostics = diagnostics,
                    !.result = <<ValidationResultOf(diagnostics)>>]>>

\* the objects of the models that are validated, in insertion order
ObjectLists ==
    {<<Customer, Order>>, <<Order, Orders>>, <<Orders, Order>>,
     <<Customer, Order, Product, Money>>}

\* the sources and targets of the morphisms of these models: resolved,
\* misspelt, and misspelt on both ends
MorphismEnds ==
    {[source |-> Order, target |-> Customer],
     [source |-> Order, target |-> Custommer],
     [source |-> Custommer, target |-> Custommer],
     [source |-> Order, target |-> Orderz],
     [source |-> Order, target |-> Odr]}

\* the names of the morphisms, by position
MorphismNameAt == <<"placedBy", "billedTo", "shipsTo", "paidBy">>

\* the morphisms of the models: up to MaxMorphisms of them
MorphismLists ==
    UNION {[1..n -> MorphismEnds] : n \in 0..MaxMorphisms}

\* a diagnostic of another pass
OtherDiagnostic(severity, code, message) ==
    [severity |-> severity, code |-> code, message |-> <<<<message>>>>, name |-> <<>>,
     spans |-> <<>>, suggestions |-> <<>>, notes |-> <<>>]

\* what the other passes report
OtherDiagnostics ==
    {<<>>,
     <<OtherDiagnostic("warning", "W0010", "Value object has no fields"),
       OtherDiagnostic("hint", "H0001", "Consider adding a description")>>,
     <<OtherDiagnostic("error", "E0020", "Duplicate object name")>>}

ValidatorModels ==
    {[objects |-> objects,
      morphisms |-> [i \in 1..Len(ends) |->
                        [name |-> MorphismNameAt[i], source |-> ends[i].source,
                         target |-> ends[i].target]],
      others |-> others] :
        objects \in ObjectLists, ends \in MorphismLists, others \in OtherDiagnostics}

\* the store holds s
StoreIs(s) ==
    /\ activeContextId = s.activeContextId
    /\ contexts = s.contexts
    /\ contextMaps = s.contextMaps
    /\ selectedNodeIds = s.selectedNodeIds
    /\ selectedEdgeIds = s.selectedEdgeIds
    /\ validationResult = s.validationResult
    /\ isPaletteOpen = s.isPaletteOpen
    /\ isPropertiesPanelOpen = s.isPropertiesPanelOpen

\* useState initial values of AggregateWizard (AggregateWizard.tsx 17-24)
\* and of its WizardModal (WizardModal.tsx 21)
aggregateWizardInitial ==
    [isOpen |-> FALSE, currentStep |-> 0, name |-> "", rootId |-> NoId,
     memberIds |-> <<>>, invariants |-> <<"">>]

\* useState initial values of ConnectConceptsWizard (NewConceptWizard.tsx 336-343)
connectWizardInitial ==
    [isOpen |-> FALSE, currentStep |-> 0, sourceId |-> NoId, targetId |-> NoId,
     cardinality |-> "one", name |-> ""]

\* useState initial values of NewConceptWizard (NewConceptWizard.tsx 17-28)
conceptWizardInitial ==
    [isOpen |-> FALSE, currentStep |-> 0, name |-> "", conceptType |-> "null",
     hasIdentity |-> "null", isImmutable |-> "null",
     fields |-> <<[name |-> "", type |-> "String", optional |-> FALSE]>>]

\* useState initial values of CodeGenPanel (CodeGenPanel.tsx 20-27)
codeGenPanelInitial ==
    [selectedLanguage |-> "typescript", includeComments |-> TRUE,
     generateInterfaces |-> TRUE, generateClasses |-> TRUE,
     namespace |-> "Domain", packageName |-> "com.example.domain"]

\* the application after construction
AppInit ==
    /\ StoreIs(initialState)
    /\ history = [past |-> <<>>, future |-> <<>>]
    /\ nextId = 1
    /\ aggregateWizard = aggregateWizardInitial
    /\ connectWizard = connectWizardInitial
    /\ codeGenPanel = codeGenPanelInitial
    /\ generatedFiles = <<>>
    /\ now = 0
    /\ wasmModule = "null"
    /\ initPromise = "null"
    /\ wasmLoader = [pc |-> "none", imports |-> 0, inits |-> 0]
    /\ initCalls = [c \in Callers |-> "idle"]
    /\ lastCall = <<>>
    /\ moduleCalls = {}
    /\ conceptWizard = conceptWizardInitial

\* no validation has been asked for
Init ==
    /\ AppInit
    /\ validation = <<>>

\* the store of contexts and context maps, with undo and redo
Next ==
    \/ \E name \in ContextNames : createContext(name) /\ UNCHANGED uiVars
    \/ \E c \in Range(ContextIdsOf(contexts)) : deleteContext(c) /\ UNCHANGED uiVars
    \/ \E c \in Range(ContextIdsOf(contexts)) : setActiveContext(c) /\ UNCHANGED uiVars
    \/ \E s, t \in Range(ContextIdsOf(contexts)) : onConnect(s, t) /\ UNCHANGED uiVars
    \/ undo /\ UNCHANGED uiVars
    \/ redo /\ UNCHANGED uiVars

Spec == Init /\ [][Next]_vars

\* ids of the nodes of the active context
ActiveNodeIds ==
    IF HasActiveContext THEN {activeContext.nodes[i].id : i \in 1..Len(activeContext.nodes)}
    ELSE {}

notAggregateVars == <<connectWizard, conceptWizard, codeGenPanel, generatedFiles, now,
                      wasmVars, validation>>

\* one context, entity blocks, the AggregateWizard, deleteNode, undo and redo;
\* the canvas and the palette are used while the wizard is closed
NextAggregate ==
    \/ /\ contexts = <<>>
       /\ \E name \in ContextNames : createContext(name)
       /\ UNCHANGED uiVars
    \/ /\ ~aggregateWizard.isOpen
       /\ handleAddBlock("entity")
       /\ UNCHANGED uiVars
    \/ /\ ~aggregateWizard.isOpen
       /\ \E n \in ActiveNodeIds : deleteNode(activeContextId, n)
       /\ UNCHANGED uiVars
    \/ /\ ~aggregateWizard.isOpen
       /\ undo
       /\ UNCHANGED uiVars
    \/ /\ ~aggregateWizard.isOpen
       /\ redo
       /\ UNCHANGED uiVars
    \/ openAggregateWizard /\ UNCHANGED <<storeVars, history, nextId, notAggregateVars>>
    \/ closeAggregateWizard /\ UNCHANGED <<storeVars, history, nextId, notAggregateVars>>
    \/ \E e \in Range(entities) :
          selectRoot(e) /\ UNCHANGED <<storeVars, history, nextId, notAggregateVars>>
    \/ \E e \in Range(entities) :
          toggleMember(e.id) /\ UNCHANGED <<storeVars, history, nextId, notAggregateVars>>
    \/ aggregateHandleNext /\ UNCHANGED notAggregateVars
    \/ aggregateHandleBack /\ UNCHANGED <<storeVars, history, nextId, notAggregateVars>>

SpecAggregate == Init /\ [][NextAggregate]_vars

notConnectVars == <<aggregateWizard, conceptWizard, codeGenPanel, generatedFiles, now,
                    wasmVars, validation>>

\* one context, entity blocks, the ConnectConceptsWizard, deleteNode, undo and
\* redo; the canvas and the palette are used while the wizard is closed
NextConnect ==
    \/ /\ contexts = <<>>
       /\ \E name \in ContextNames : createContext(name)
       /\ UNCHANGED uiVars
    \/ /\ ~connectWizard.isOpen
       /\ handleAddBlock("entity")
       /\ UNCHANGED uiVars
    \/ /\ ~connectWizard.isOpen
       /\ \E n \in ActiveNodeIds : deleteNode(activeContextId, n)
       /\ UNCHANGED uiVars
    \/ /\ ~connectWizard.isOpen
       /\ undo
       /\ UNCHANGED uiVars
    \/ /\ ~connectWizard.isOpen
       /\ redo
       /\ UNCHANGED uiVars
    \/ openConnectWizard /\ UNCHANGED <<storeVars, history, nextId, notConnectVars>>
    \/ closeConnectWizard /\ UNCHANGED <<storeVars, history, nextId, notConnectVars>>
    \/ \E id \in {n.id : n \in Range(connectableNodes)} \cup {NoId} :
          setSourceId(id) /\ UNCHANGED <<storeVars, history, nextId, notConnectVars>>
    \/ \E id \in {n.id : n \in Range(connectableNodes)} \cup {NoId} :
          setTargetId(id) /\ UNCHANGED <<storeVars, history, nextId, notConnectVars>>
    \/ \E c \in Cardinalities :
          setCardinality(c) /\ UNCHANGED <<storeVars, history, nextId, notConnectVars>>
    \/ \E name \in MorphismNames :
          setMorphismName(name) /\ UNCHANGED <<storeVars, history, nextId, notConnectVars>>
    \/ useSuggestedName /\ UNCHANGED <<storeVars, history, nextId, notConnectVars>>
    \/ connectHandleNext /\ UNCHANGED notConnectVars
    \/ connectHandleBack /\ UNCHANGED <<storeVars, history, nextId, notConnectVars>>

SpecConnect == Init /\ [][NextConnect]_vars

notImportVars == <<aggregateWizard, connectWizard, conceptWizard, codeGenPanel,
                   generatedFiles, now, validation>>

\* importing .sddd files once the module is loaded, with undo and redo
NextImport ==
    \/ AppInitWasm /\ UNCHANGED <<storeVars, history, nextId, notImportVars>>
    \/ \E data \in ParsedModels : importModel(data) /\ UNCHANGED <<notImportVars, wasmVars>>
    \/ undo /\ UNCHANGED uiVars
    \/ redo /\ UNCHANGED uiVars

SpecImport == Init /\ [][NextImport]_vars

notWasmVars == <<storeVars, history, nextId, aggregateWizard, connectWizard,
                 conceptWizard, codeGenPanel, generatedFiles, now, validation>>

\* the wrapper alone: concurrent calls of initWasm, the load, calls of the
\* wrapper functions at any moment
NextWasm ==
    \/ \E c \in Callers : initWasm(c) /\ UNCHANGED notWasmVars
    \/ \E ok \in BOOLEAN : importSettles(ok) /\ UNCHANGED notWasmVars
    \/ \E ok \in BOOLEAN : defaultSettles(ok) /\ UNCHANGED notWasmVars
    \/ \E c \in Callers : initWasmResumes(c) /\ UNCHANGED notWasmVars
    \/ \E fn \in WrapperFunctions : callWrapper(fn) /\ UNCHANGED notWasmVars

SpecWasm == Init /\ [][NextWasm]_vars

notCodeGenVars == <<aggregateWizard, connectWizard, conceptWizard, validation>>

\* generating code for an imported model: the first import of a session, the
\* panel's settings, validation results arriving and time passing
NextCodeGen ==
    \/ /\ AppInitWasm
       /\ UNCHANGED <<storeVars, history, nextId, notCodeGenVars, codeGenPanel,
                      generatedFiles, now>>
    \/ \E data \in ParsedModels :
          /\ history.past = <<>>
          /\ importModel(data)
          /\ generatedFiles' = GeneratedFor(contexts', activeContextId', codeGenPanel)
          /\ UNCHANGED <<notCodeGenVars, codeGenPanel, now, wasmVars>>
    \/ \E lang \in languages :
          setSelectedLanguage(lang) /\ UNCHANGED <<notCodeGenVars, wasmVars>>
    \/ \E checked \in BOOLEAN :
          setIncludeComments(checked) /\ UNCHANGED <<notCodeGenVars, wasmVars>>
    \/ \E checked \in BOOLEAN :
          setGenerateInterfaces(checked) /\ UNCHANGED <<notCodeGenVars, wasmVars>>
    \/ \E checked \in BOOLEAN :
          setGenerateClasses(checked) /\ UNCHANGED <<notCodeGenVars, wasmVars>>
    \/ \E value \in PackageNames :
          setPackageName(value) /\ UNCHANGED <<notCodeGenVars, wasmVars>>
    \/ \E value \in Namespaces :
          setNamespace(value) /\ UNCHANGED <<notCodeGenVars, wasmVars>>
    \/ \E result \in ValidationResults :
          setValidationResult(result) /\ UNCHANGED <<notCodeGenVars, wasmVars>>
    \/ Tick /\ UNCHANGED <<notCodeGenVars, wasmVars>>

SpecCodeGen == Init /\ [][NextCodeGen]_vars

\* the store's history: contexts are created, the panels are toggled,
\* validation results arrive, and the user undoes, redoes and resets
NextHistory ==
    \/ \E name \in ContextNames : createContext(name) /\ UNCHANGED uiVars
    \/ togglePalette /\ UNCHANGED uiVars
    \/ togglePropertiesPanel /\ UNCHANGED uiVars
    \/ \E result \in ValidationResults :
          setValidationResult(result) /\ UNCHANGED <<notCodeGenVars, wasmVars>>
    \/ undo /\ UNCHANGED uiVars
    \/ redo /\ UNCHANGED uiVars
    \/ reset /\ UNCHANGED uiVars

SpecHistory == Init /\ [][NextHistory]_vars

\* the names renameContext is called with
ContextRenames == {"Sales"}

\* the validation result that arrives while the store is edited
ArrivingResults ==
    {[valid |-> TRUE, error_count |-> 0, warning_count |-> 0, issues |-> <<>>]}

\* where a node is dragged to
DragPositions == {<<300, 200>>}

\* the morphisms drawn between two nodes of the active context
DrawnMorphisms ==
    {[name |-> "relates to", sourceId |-> s, targetId |-> t, cardinality |-> "one"] :
        s \in ActiveNodeIds, t \in ActiveNodeIds}

\* this specification stops recording at MaxRecorded snapshots
CanRecordMore == Len(history.past) < MaxRecorded

\* how many of the panels, the selections and the validation result differ
\* from initialState
UiChanges ==
    Cardinality({k \in {"palette", "properties", "nodes", "edges", "validation"} :
                    CASE k = "palette" -> ~isPaletteOpen
                      [] k = "properties" -> ~isPropertiesPanelOpen
                      [] k = "nodes" -> selectedNodeIds # <<>>
                      [] k = "edges" -> selectedEdgeIds # <<>>
                      [] k = "validation" -> validationResult # <<>>})

\* this specification explores at most MaxUiChanges of them at once
FewUiChanges == UiChanges <= MaxUiChanges

\* the whole store: the recorded actions, the actions that record nothing,
\* undo and redo
NextStore ==
    \/ /\ CanRecordMore
       /\ \E name \in ContextNames : createContext(name)
       /\ UNCHANGED uiVars
    \/ /\ CanRecordMore
       /\ \E c \in Range(ContextIdsOf(contexts)), name \in ContextRenames :
             renameContext(c, name)
       /\ UNCHANGED uiVars
    \/ /\ CanRecordMore
       /\ \E c \in Range(ContextIdsOf(contexts)) : deleteContext(c)
       /\ UNCHANGED uiVars
    \/ /\ CanRecordMore
       /\ handleAddBlock("entity")
       /\ UNCHANGED uiVars
    \/ /\ CanRecordMore
       /\ \E n \in ActiveNodeIds : deleteNode(activeContextId, n)
       /\ UNCHANGED uiVars
    \/ /\ CanRecordMore
       /\ \E morphism \in DrawnMorphisms : addMorphism(activeContextId, morphism)
       /\ UNCHANGED uiVars
    \/ /\ CanRecordMore
       /\ \E s, t \in Range(ContextIdsOf(contexts)) : onConnect(s, t)
       /\ UNCHANGED uiVars
    \/ /\ CanRecordMore
       /\ \E data \in JsonModels : importModelJson(data)
       /\ UNCHANGED uiVars
    \/ \E c \in Range(ContextIdsOf(contexts)) : setActiveContext(c) /\ UNCHANGED uiVars
    \/ \E n \in ActiveNodeIds, position \in DragPositions :
          moveNode(activeContextId, n, position) /\ UNCHANGED uiVars
    \/ /\ \E n \in ActiveNodeIds : setSelectedNodes(<<n>>)
       /\ FewUiChanges'
       /\ UNCHANGED uiVars
    \/ /\ HasActiveContext
       /\ \E m \in Range(activeContext.morphisms) : setSelectedEdges(<<m.id>>)
       /\ FewUiChanges'
       /\ UNCHANGED uiVars
    \/ clearSelection /\ UNCHANGED uiVars
    \/ /\ \E result \in ArrivingResults : setValidationResult(result)
       /\ FewUiChanges'
       /\ UNCHANGED <<notCodeGenVars, wasmVars>>
    \/ togglePalette /\ FewUiChanges' /\ UNCHANGED uiVars
    \/ togglePropertiesPanel /\ FewUiChanges' /\ UNCHANGED uiVars
    \/ undo /\ UNCHANGED uiVars
    \/ redo /\ UNCHANGED uiVars

SpecStore == Init /\ [][NextStore]_vars

\* the recorded actions, setActiveContext, undo and redo
NextEdits ==
    \/ /\ CanRecordMore
       /\ \E name \in ContextNames : createContext(name)
       /\ UNCHANGED uiVars
    \/ /\ CanRecordMore
       /\ \E c \in Range(ContextIdsOf(contexts)), name \in ContextRenames :
             renameContext(c, name)
       /\ UNCHANGED uiVars
    \/ /\ CanRecordMore
       /\ \E c \in Range(ContextIdsOf(contexts)) : deleteContext(c)
       /\ UNCHANGED uiVars
    \/ /\ CanRecordMore
       /\ handleAddBlock("entity")
       /\ UNCHANGED uiVars
    \/ /\ CanRecordMore
       /\ \E n \in ActiveNodeIds : deleteNode(activeContextId, n)
       /\ UNCHANGED uiVars
    \/ /\ CanRecordMore
       /\ \E morphism \in DrawnMorphisms : addMorphism(activeContextId, morphism)
       /\ UNCHANGED uiVars
    \/ /\ CanRecordMore
       /\ \E s, t \in Range(ContextIdsOf(contexts)) : onConnect(s, t)
       /\ UNCHANGED uiVars
    \/ /\ CanRecordMore
       /\ \E data \in JsonModels : importModelJson(data)
       /\ UNCHANGED uiVars
    \/ \E c \in Range(ContextIdsOf(contexts)) : setActiveContext(c) /\ UNCHANGED uiVars
    \/ undo /\ UNCHANGED uiVars
    \/ redo /\ UNCHANGED uiVars

SpecEdits == Init /\ [][NextEdits]_vars

\* the names the context is given in turn
AlternatingNames == {"Commerce", "Sales"}

\* a long editing session: one context is created and renamed again and
\* again, each time to the other name, with undo and redo in between; the
\* undo stack is bounded by MAX_HISTORY alone
NextLongHistory ==
    \/ /\ contexts = <<>>
       /\ \E name \in ContextNames : createContext(name)
       /\ UNCHANGED uiVars
    \/ /\ HasActiveContext
       /\ \E name \in AlternatingNames :
             /\ name # activeContext.name
             /\ renameContext(activeContextId, name)
       /\ UNCHANGED uiVars
    \/ undo /\ UNCHANGED uiVars
    \/ redo /\ UNCHANGED uiVars

SpecLongHistory == Init /\ [][NextLongHistory]_vars

notValidatorVars == <<storeVars, history, nextId, aggregateWizard, connectWizard,
                      conceptWizard, codeGenPanel, generatedFiles, now, wasmVars>>

\* a model is handed to the validator
InitValidator ==
    /\ AppInit
    /\ \E model \in ValidatorModels :
          validation = <<[model |-> model, diagnostics |-> <<>>, result |-> <<>>]>>

NextValidator == validate /\ UNCHANGED notValidatorVars

SpecValidator == InitValidator /\ [][NextValidator]_vars

notConceptVars == <<aggregateWizard, connectWizard, codeGenPanel, generatedFiles, now,
                    wasmVars, validation>>

\* one context, the NewConceptWizard and the panel's language; the panel
\* renders again after every change of the store
NextConcept ==
    \/ /\ contexts = <<>>
       /\ \E name \in ContextNames : createContext(name)
       /\ UNCHANGED uiVars
    \/ openConceptWizard /\ UNCHANGED <<storeVars, history, nextId, notConceptVars>>
    \/ closeConceptWizard /\ UNCHANGED <<storeVars, history, nextId, notConceptVars>>
    \/ \E name \in ConceptNames :
          setConceptName(name) /\ UNCHANGED <<storeVars, history, nextId, notConceptVars>>
    \/ \E answer \in {"true", "false"} :
          setHasIdentity(answer) /\ UNCHANGED <<storeVars, history, nextId, notConceptVars>>
    \/ \E answer \in {"true", "false"} :
          setIsImmutable(answer) /\ UNCHANGED <<storeVars, history, nextId, notConceptVars>>
    \/ \E type \in {"entity", "value"} :
          setConceptType(type) /\ UNCHANGED <<storeVars, history, nextId, notConceptVars>>
    \/ addField /\ UNCHANGED <<storeVars, history, nextId, notConceptVars>>
    \/ \E index \in 1..MaxFields, updates \in FieldUpdates :
          updateField(index, updates)
          /\ UNCHANGED <<storeVars, history, nextId, notConceptVars>>
    \/ \E index \in 1..MaxFields :
          removeField(index) /\ UNCHANGED <<storeVars, history, nextId, notConceptVars>>
    \/ /\ conceptHandleNext
       /\ generatedFiles' = GeneratedFor(contexts', activeContextId', codeGenPanel)
       /\ UNCHANGED <<aggregateWizard, connectWizard, codeGenPanel, now, wasmVars,
                      validation>>
    \/ conceptHandleBack /\ UNCHANGED <<storeVars, history, nextId, notConceptVars>>
    \/ \E lang \in languages :
          setSelectedLanguage(lang) /\ UNCHANGED <<notCodeGenVars, wasmVars>>

SpecConcept == Init /\ [][NextConcept]_vars

\* the parsed models that declare the two entities and nothing else but,
\* possibly, morphisms
RelationModels ==
    {data \in ParsedModels :
        /\ data.contexts # <<>>
        /\ data.contexts[1].entities # <<>>
        /\ data.contexts[1].value_objects = <<>>
        /\ data.contexts[1].enums = <<>>
        /\ data.contexts[1].aggregates = <<>>}

notRelationVars == <<aggregateWizard, conceptWizard, validation>>

\* relationships between imported entities: the first import of a session,
\* the ConnectConceptsWizard and the panel's language and TypeScript options;
\* the panel renders again after every change of the store
NextRelations ==
    \/ /\ AppInitWasm
       /\ UNCHANGED <<storeVars, history, nextId, notRelationVars, connectWizard,
                      codeGenPanel, generatedFiles, now>>
    \/ \E data \in RelationModels :
          /\ history.past = <<>>
          /\ importModel(data)
          /\ generatedFiles' = GeneratedFor(contexts', activeContextId', codeGenPanel)
          /\ UNCHANGED <<notRelationVars, connectWizard, codeGenPanel, now, wasmVars>>
    \/ openConnectWizard /\ UNCHANGED <<storeVars, history, nextId, notConnectVars>>
    \/ closeConnectWizard /\ UNCHANGED <<storeVars, history, nextId, notConnectVars>>
    \/ \E id \in {n.id : n \in Range(connectableNodes)} :
          setSourceId(id) /\ UNCHANGED <<storeVars, history, nextId, notConnectVars>>
    \/ \E id \in {n.id : n \in Range(connectableNodes)} :
          setTargetId(id) /\ UNCHANGED <<storeVars, history, nextId, notConnectVars>>
    \/ \E c \in Cardinalities :
          setCardinality(c) /\ UNCHANGED <<storeVars, history, nextId, notConnectVars>>
    \/ \E name \in MorphismNames :
          setMorphismName(name) /\ UNCHANGED <<storeVars, history, nextId, notConnectVars>>
    \/ useSuggestedName /\ UNCHANGED <<storeVars, history, nextId, notConnectVars>>
    \/ /\ connectHandleNext
       /\ generatedFiles' = GeneratedFor(contexts', activeContextId', codeGenPanel)
       /\ UNCHANGED <<notRelationVars, codeGenPanel, now, wasmVars>>
    \/ connectHandleBack /\ UNCHANGED <<storeVars, history, nextId, notConnectVars>>
    \/ \E lang \in languages :
          setSelectedLanguage(lang) /\ UNCHANGED <<notCodeGenVars, wasmVars>>
    \/ \E checked \in BOOLEAN :
          setGenerateInterfaces(checked) /\ UNCHANGED <<notCodeGenVars, wasmVars>>
    \/ \E checked \in BOOLEAN :
          setGenerateClasses(checked) /\ UNCHANGED <<notCodeGenVars, wasmVars>>

SpecRelations == Init /\ [][NextRelations]_vars

(***************************************************************************)
(* C5                                                                      *)
(***************************************************************************)
References(m, contextId) ==
    m.sourceContextId = contextId \/ m.targetContextId = contextId

MapsReferenceExistingContexts ==
    \A i \in 1..Len(contextMaps) :
        /\ HasContext(contexts, contextMaps[i].sourceContextId)
        /\ HasContext(contexts, contextMaps[i].targetContextId)

DeleteContextDropsItsMaps ==
    \A c \in Ids :
        deleteContext(c) =>
            /\ \A i \in 1..Len(contextMaps') : ~References(contextMaps'[i], c)
            /\ \A i \in 1..Len(contextMaps) :
                   ~References(contextMaps[i], c) => Includes(contextMaps', contextMaps[i])
            /\ Range(contextMaps') \subseteq Range(contextMaps)

\* C5: deleting a context deletes every ContextMap that references it and
\* keeps every other ContextMap, so under createContext, onConnect
\* (addContextMap between existing contexts), deleteContext, undo and redo
\* each ContextMap references only existing contexts.
C5_DeleteContextCascades ==
    /\ []MapsReferenceExistingContexts
    /\ [][DeleteContextDropsItsMaps]_vars

\* a deleteContext has just dropped a map of the deleted context and kept a
\* map between two other contexts
C5_Witness ==
    /\ Len(history.past) > 0
    /\ LET before == history.past[Len(history.past)]
       IN  /\ Len(before.contexts) = Len(contexts) + 1
           /\ Len(before.contextMaps) = 1
           /\ contextMaps = <<>>
           /\ Len(contexts) > 0

(***************************************************************************)
(* C2, C3                                                                  *)
(***************************************************************************)
\* the aggregate nodes of a context
AggregatesOf(context) ==
    {context.nodes[i].node : i \in {j \in 1..Len(context.nodes) :
                                       context.nodes[j].node.kind = "aggregate"}}

\* C2: every aggregate node the AggregateWizard added to the store has a
\* rootId that is not one of its memberIds.
C2_RootNotAMember ==
    \A i \in 1..Len(contexts) :
        \A a \in AggregatesOf(contexts[i]) : ~Includes(a.memberIds, a.rootId)

\* C3: every id in an aggregate's memberIds is the id of a node of the same
\* context, also after deleteNode.
C3_MembersExist ==
    \A i \in 1..Len(contexts) :
        \A a \in AggregatesOf(contexts[i]) :
            \A k \in 1..Len(a.memberIds) : HasNode(contexts[i], a.memberIds[k])

(***************************************************************************)
(* C4                                                                      *)
(***************************************************************************)
\* C4: each morphism's sourceId and targetId are ids of nodes of the
\* morphism's own context, in every state reached through the wizard,
\* deleteNode, undo and redo.
C4_MorphismEndsExist ==
    \A i \in 1..Len(contexts) :
        \A k \in 1..Len(contexts[i].morphisms) :
            /\ HasNode(contexts[i], contexts[i].morphisms[k].sourceId)
            /\ HasNode(contexts[i], contexts[i].morphisms[k].targetId)

(***************************************************************************)
(* C6: after importModel of .sddd text, the rootId of each imported        *)
(* aggregate is empty or the id of an entity node of the same context,     *)
(* also when the aggregate has the name of its root entity.                *)
(***************************************************************************)
IsEntityOf(context, id) ==
    \E n \in Range(context.nodes) : n.id = id /\ n.node.kind = "entity"

C6_ImportedRootIsEntity ==
    \A c \in Range(contexts) : \A n \in Range(c.nodes) :
        n.node.kind = "aggregate" =>
            n.node.rootId = NoId \/ IsEntityOf(c, n.node.rootId)

(***************************************************************************)
(* C1: while the store's validation result holds an issue of severity      *)
(* error, the code generation panel holds no generated file.               *)
(***************************************************************************)
HasError(result) ==
    \E i \in 1..Len(result.issues) : result.issues[i].severity = "error"

C1_NoFilesWhileErrors ==
    (validationResult # <<>> /\ HasError(validationResult[1]))
        => generatedFiles = <<>>

(***************************************************************************)
(* C7: generating again, at whatever time, for the unchanged context with  *)
(* the same language and options gives the files the panel holds: the same *)
(* filenames with the same contents.                                       *)
(***************************************************************************)
C7_SameOutputAtAnyTime ==
    generatedFiles = GeneratedFor(contexts, activeContextId, codeGenPanel)

(***************************************************************************)
(* C8: the order of the generated items.  The list of Java and C# files    *)
(* follows the insertion order of context.nodes; the declarations of the   *)
(* TypeScript file come grouped by kind (enums, value objects, entities,   *)
(* aggregates) and follow the insertion order inside each kind.            *)
(***************************************************************************)
\* the line that opens the TypeScript declaration of a node, none for an
\* entity or value object generated without interface and class
DeclarationLineTS(node, options) ==
    CASE node.kind = "enum" ->
            IF \E i \in 1..Len(node.variants) : node.variants[i].payload # ""
            THEN <<"export type " \o node.name \o " =">>
            ELSE <<"export enum " \o node.name \o " {">>
      [] node.kind = "aggregate" ->
            <<"export interface " \o node.name \o "Aggregate {">>
      [] OTHER ->
            IF options.generateInterfaces
            THEN <<"export interface " \o node.name \o " {">>
            ELSE IF options.generateClasses
            THEN <<"export class " \o node.name \o "Impl implements " \o node.name \o " {">>
            ELSE <<>>

\* the declaration lines of nodes, in the order of nodes
DeclarationLinesTS(nodes, options) ==
    Flatten(MapSeq(LAMBDA data : DeclarationLineTS(data.node, options), nodes))

\* the declaration lines of the context's nodes as they follow each other in a text
DeclarationsIn(content, context, options) ==
    SelectSeq(content,
              LAMBDA line : line \in Range(DeclarationLinesTS(context.nodes, options)))

FileNameOf(node, extension) ==
    IF node.kind = "aggregate" THEN node.name \o "Aggregate" \o extension
    ELSE node.name \o extension

FileNames(nodes, extension) ==
    MapSeq(LAMBDA data : FileNameOf(data.node, extension), nodes)

GeneratedFileNames == MapSeq(LAMBDA file : file.filename, generatedFiles)

NodesOfKind(nodes, kind) == SelectSeq(nodes, LAMBDA data : data.node.kind = kind)

FilesFollowInsertionOrder ==
    /\ codeGenPanel.selectedLanguage = "java"
          => GeneratedFileNames = FileNames(activeContext.nodes, ".java")
    /\ codeGenPanel.selectedLanguage = "csharp"
          => GeneratedFileNames = FileNames(activeContext.nodes, ".cs")

C8_ItemsByKindThenInsertionOrder ==
    HasActiveContext =>
        /\ FilesFollowInsertionOrder
        /\ codeGenPanel.selectedLanguage = "typescript" =>
              /\ Len(generatedFiles) = 1
              /\ DeclarationsIn(generatedFiles[1].content, activeContext, codeGenPanel)
                 = DeclarationLinesTS(
                       NodesOfKind(activeContext.nodes, "enum")
                       \o NodesOfKind(activeContext.nodes, "value")
                       \o NodesOfKind(activeContext.nodes, "entity")
                       \o NodesOfKind(activeContext.nodes, "aggregate"),
                       codeGenPanel)

\* the statement as the specification has it: every backend follows the
\* insertion order, the TypeScript declarations included
C8_ItemsInInsertionOrder ==
    HasActiveContext =>
        /\ FilesFollowInsertionOrder
        /\ codeGenPanel.selectedLanguage = "typescript" =>
              /\ Len(generatedFiles) = 1
              /\ DeclarationsIn(generatedFiles[1].content, activeContext, codeGenPanel)
                 = DeclarationLinesTS(activeContext.nodes, codeGenPanel)

\* a TypeScript file generated for a context that holds an entity inserted
\* before an enum, both declared in the file
C8_Witness ==
    /\ HasActiveContext
    /\ codeGenPanel.selectedLanguage = "typescript"
    /\ Len(generatedFiles) = 1
    /\ \E i, j \in 1..Len(activeContext.nodes) :
          /\ i < j
          /\ activeContext.nodes[i].node.kind = "entity"
          /\ activeContext.nodes[j].node.kind = "enum"
    /\ Len(DeclarationsIn(generatedFiles[1].content, activeContext, codeGenPanel)) >= 2

(***************************************************************************)
(* C9: for an enum with a payload-bearing variant the TypeScript file      *)
(* holds a discriminated union, and the Java and C# files hold a plain     *)
(* enum together with something for the payload, so that the file differs  *)
(* from the one generated for the same enum without payloads.              *)
(***************************************************************************)
HasPayloadVariant(node) ==
    /\ node.kind = "enum"
    /\ \E i \in 1..Len(node.variants) : node.variants[i].payload # ""

WithoutPayloads(node) ==
    [node EXCEPT !.variants = MapSeq(LAMBDA v : [v EXCEPT !.payload = ""], @)]

C9_PayloadEnumForms ==
    HasActiveContext =>
        \A data \in Range(activeContext.nodes) :
            HasPayloadVariant(data.node) =>
                LET options == OptionsOf(codeGenPanel.selectedLanguage, codeGenPanel)
                IN  CASE codeGenPanel.selectedLanguage = "typescript" ->
                            \E file \in Range(generatedFiles) :
                                Includes(file.content,
                                         "export type " \o data.node.name \o " =")
                      [] codeGenPanel.selectedLanguage = "java" ->
                            \E file \in Range(generatedFiles) :
                                /\ file.filename = data.node.name \o ".java"
                                /\ Includes(file.content,
                                            "public enum " \o data.node.name \o " {")
                                /\ file.content
                                   # generateEnumJava(WithoutPayloads(data.node), options)
                      [] codeGenPanel.selectedLanguage = "csharp" ->
                            \E file \in Range(generatedFiles) :
                                /\ file.filename = data.node.name \o ".cs"
                                /\ Includes(file.content, "public enum " \o data.node.name)
                                /\ file.content
                                   # generateEnumCSharp(WithoutPayloads(data.node), options)

(***************************************************************************)
(* C10: for every aggregate and each of its resolved members, the          *)
(* generated aggregate of every backend declares one collection for the    *)
(* member, an operation that adds to it and an operation that removes      *)
(* from it.                                                                *)
(***************************************************************************)
capitalizeVerb(verb) == CASE verb = "add" -> "Add" [] verb = "remove" -> "Remove"

\* the line that declares the collection of a member
CollectionLine(language, name) ==
    CASE language = "typescript" ->
            "  " \o toLowerCase(name) \o "s: " \o name \o "[];"
      [] language = "java" ->
            "    private final List<" \o name \o "> " \o toLowerCase(name) \o "s;"
      [] language = "csharp" ->
            "    private readonly List<" \o name \o "> _" \o toLowerCase(name)
            \o "s = new();"

\* the lines that may open the declaration of an add or remove operation
OperationLines(language, verb, name) ==
    CASE language = "typescript" ->
            {"  " \o verb \o name \o "(item: " \o name \o "): " \o result \o ";" :
                result \in {"void", "boolean"}}
      [] language = "java" ->
            {"    public " \o result \o " " \o verb \o name \o "(" \o name \o " item) {" :
                result \in {"void", "boolean"}}
      [] language = "csharp" ->
            {"    public " \o result \o " " \o capitalizeVerb(verb) \o name
             \o "(" \o name \o " item)" : result \in {"void", "bool"}}

AggregateFileOf(node) ==
    SelectSeq(generatedFiles,
              LAMBDA file :
                  \/ codeGenPanel.selectedLanguage = "typescript"
                  \/ file.filename = FileNameOf(node, ".java")
                  \/ file.filename = FileNameOf(node, ".cs"))

C10_MemberCollectionsHaveAddAndRemove ==
    HasActiveContext =>
        \A data \in Range(activeContext.nodes) :
            data.node.kind = "aggregate" =>
                \A member \in Range(MemberNodes(data.node, activeContext)) :
                    \E file \in Range(AggregateFileOf(data.node)) :
                        LET language == codeGenPanel.selectedLanguage
                        IN  /\ Includes(file.content, CollectionLine(language, member.name))
                            /\ \E line \in OperationLines(language, "add", member.name) :
                                  Includes(file.content, line)
                            /\ \E line \in OperationLines(language, "remove", member.name) :
                                  Includes(file.content, line)

(***************************************************************************)
(* C11: relationships in the generated entity types.                       *)
(***************************************************************************)
\* the generated files that hold the type of a node: the single TypeScript
\* file, or the Java or C# file named after the node
FilesOf(node) ==
    SelectSeq(generatedFiles,
              LAMBDA file :
                  \/ file.language = "typescript"
                  \/ file.filename = FileNameOf(node, ".java")
                  \/ file.filename = FileNameOf(node, ".cs"))

\* the lines that may declare the member of a morphism named name to a
\* target type, in the shape of its cardinality
MemberLines(language, name, target, cardinality) ==
    CASE language = "typescript" ->
            CASE cardinality = "many" ->
                    {"  " \o ro \o name \o ": " \o type \o ";" :
                        ro \in {"", "readonly "},
                        type \in {target \o "[]", "Array<" \o target \o ">"}}
              [] cardinality = "optional" ->
                    {"  " \o name \o "?: " \o target \o " | null;",
                     "  " \o name \o "?: " \o target \o ";",
                     "  " \o name \o ": " \o target \o " | null;"}
              [] OTHER -> {"  " \o name \o ": " \o target \o ";"}
      [] language = "java" ->
            {"    private " \o final \o type \o " " \o name \o ";" :
                final \in {"", "final "},
                type \in CASE cardinality = "many" ->
                                {"List<" \o target \o ">", "Set<" \o target \o ">"}
                          [] cardinality = "optional" ->
                                {"Optional<" \o target \o ">", target}
                          [] OTHER -> {target}}
      [] language = "csharp" ->
            {"    public " \o required \o type \o " " \o capitalize(name) \o accessors :
                required \in {"", "required "},
                accessors \in {" { get; set; }", " { get; init; }",
                               " { get; set; } = new();", " { get; } = new();"},
                type \in CASE cardinality = "many" ->
                                {"List<" \o target \o ">", "ICollection<" \o target \o ">"}
                          [] cardinality = "optional" -> {target \o "?"}
                          [] OTHER -> {target}}

\* the morphisms of the active context that leave an entity and reach a node
EntityMorphisms ==
    IF ~HasActiveContext THEN <<>>
    ELSE SelectSeq(activeContext.morphisms,
                   LAMBDA m : /\ HasNode(activeContext, m.sourceId)
                              /\ HasNode(activeContext, m.targetId)
                              /\ NodeOf(activeContext, m.sourceId).kind = "entity")

\* C11: for every morphism whose source is an entity, the type generated for
\* that entity in the selected language has a member for the morphism in the
\* shape of its cardinality: a collection for many, a nullable or optional
\* member for optional, a scalar member for one.
C11_MorphismMembersFollowCardinality ==
    \A m \in Range(EntityMorphisms) :
        LET sourceNode == NodeOf(activeContext, m.sourceId)
            targetNode == NodeOf(activeContext, m.targetId)
        IN  /\ FilesOf(sourceNode) # <<>>
            /\ \A file \in Range(FilesOf(sourceNode)) :
                  \E line \in MemberLines(codeGenPanel.selectedLanguage, m.name,
                                          targetNode.name, m.cardinality) :
                      Includes(file.content, line)

(***************************************************************************)
(* C12: the identity member of the generated entity types.                 *)
(***************************************************************************)
\* the lines of content from the first line that is opening up to the next
\* line that closes a declaration; none when opening is not a line of content
BlockFrom(content, opening) ==
    IF ~Includes(content, opening) THEN <<>>
    ELSE LET first == CHOOSE i \in 1..Len(content) :
                         /\ content[i] = opening
                         /\ \A j \in 1..(i - 1) : content[j] # opening
             closing == {j \in (first + 1)..Len(content) : content[j] = "}"}
             last == IF closing = {} THEN Len(content)
                     ELSE CHOOSE j \in closing : \A k \in closing : j <= k
         IN  SubSeq(content, first, last)

\* the types generated for an entity in the selected language, each as its
\* lines: the interface and the class of the TypeScript file, the class of
\* the Java or C# file named after the entity
EntityTypes(node) ==
    IF codeGenPanel.selectedLanguage = "typescript"
    THEN SelectSeq(
             Flatten(MapSeq(
                 LAMBDA file :
                     <<BlockFrom(file.content, "export interface " \o node.name \o " {"),
                       BlockFrom(file.content, "export class " \o node.name
                                               \o "Impl implements " \o node.name \o " {")>>,
                 generatedFiles)),
             LAMBDA block : block # <<>>)
    ELSE MapSeq(LAMBDA file : file.content, FilesOf(node))

\* the lines that declare a member id of a type
IdDeclarations(language) ==
    CASE language = "typescript" ->
            {"  " \o ro \o "id" \o opt \o ": " \o mapTypeToTS(type) \o ";" :
                ro \in {"", "readonly "}, opt \in {"", "?"}, type \in FieldTypes}
      [] language = "java" ->
            {"    private " \o final \o mapTypeToJava(type) \o " id;" :
                final \in {"", "final "}, type \in FieldTypes}
      [] language = "csharp" ->
            {"    public Guid Id { get; init; } = Guid.NewGuid();"}
            \cup {"    public" \o required \o " " \o mapTypeToCSharp(type) \o opt
                  \o " Id { get; set; }" :
                     required \in {"", " required"}, opt \in {"", "?"},
                     type \in FieldTypes}

\* how many lines of a type declare a member id
IdCount(block) ==
    Len(SelectSeq(block, LAMBDA line :
                             line \in IdDeclarations(codeGenPanel.selectedLanguage)))

\* C12: for every entity of the active context, entities added by the
\* NewConceptWizard included, each type generated for it in the selected
\* language declares the identity member id exactly once.
C12_IdDeclaredOnce ==
    HasActiveContext =>
        \A data \in Range(activeContext.nodes) :
            data.node.kind = "entity" =>
                /\ EntityTypes(data.node) # <<>>
                /\ \A block \in Range(EntityTypes(data.node)) : IdCount(block) = 1

(***************************************************************************)
(* C15, C16: reset, undo and redo.                                         *)
(***************************************************************************)
\* C15: reset cannot be undone: a reset leaves the store equal to the
\* initial state and both history stacks empty, so that canUndo() and
\* canRedo() are false, and undo and redo change the store only while one of
\* their stacks holds a snapshot, which was then recorded after the reset.
C15_ResetCannotBeUndone ==
    [][/\ reset => /\ CurrentState' = initialState
                   /\ history'.past = <<>>
                   /\ history'.future = <<>>
                   /\ ~canUndo'
                   /\ ~canRedo'
       /\ (~canUndo /\ ~canRedo) => ~(undo \/ redo)]_vars

\* the store after a reset of a session that had recorded history: ids were
\* drawn, and the store is the initial one with nothing to undo or redo
C15_Witness ==
    /\ nextId > 1
    /\ CurrentState = initialState
    /\ ~canUndo
    /\ ~canRedo

\* the fields of the store that no action records in the history
UiState == <<isPaletteOpen, isPropertiesPanelOpen, validationResult>>

\* C16: undo() and redo() leave isPaletteOpen, isPropertiesPanelOpen and
\* validationResult exactly as they were before the call.
C16_UndoRedoKeepUiState ==
    [][(undo \/ redo) => UiState' = UiState]_vars

(***************************************************************************)
(* C13, C14: the WASM wrapper.                                             *)
(***************************************************************************)
NotInitializedMessage == "WASM module not initialized. Call initWasm() first."

\* C13: initWasm may be called any number of times, by callers interleaved
\* in any way: the module is imported at most once and initialised at most
\* once, and a call has resolved only when the module is available.
C13_InitializesOnce ==
    /\ wasmLoader.imports <= 1
    /\ wasmLoader.inits <= 1
    /\ \A c \in Callers : initCalls[c] = "resolved" => wasmModule = "loaded"

\* every caller has called and resolved, after one import and one
\* initialisation
C13_Witness ==
    /\ \A c \in Callers : initCalls[c] = "resolved"
    /\ wasmLoader.imports = 1
    /\ wasmLoader.inits = 1

\* C14: as long as initWasm has not completed (never called, in flight or
\* failed), every call of a wrapper function throws 'WASM module not
\* initialized' and no function of the module has been called.
C14_ThrowsBeforeInitialized ==
    wasmModule = "null" =>
        /\ moduleCalls = {}
        /\ lastCall # <<>> => lastCall[1].threw = NotInitializedMessage

\* a wrapper function was called while the initialisation was in flight
C14_Witness ==
    /\ lastCall # <<>>
    /\ lastCall[1].threw = NotInitializedMessage
    /\ initPromise = "pending"
    /\ wasmModule = "null"

\* ... and one was called after the initialisation failed
C14_WitnessAfterFailure ==
    /\ lastCall # <<>>
    /\ lastCall[1].threw = NotInitializedMessage
    /\ initPromise = "rejected"

(***************************************************************************)
(* C17..C20: the validator's diagnostics.                                  *)
(***************************************************************************)
\* the validator has run on the model
Validated == validation # <<>> /\ validation[1].result # <<>>

ValidatedModel == validation[1].model

ValidatedDiagnostics == validation[1].diagnostics

SeverityCount(issues, severity) ==
    Cardinality({i \in 1..Len(issues) : issues[i].severity = severity})

\* C17: a ValidationResult is valid exactly when it has no issue of
\* severity error, that is when error_count = 0; warnings and hints never
\* make it invalid; it has issues exactly when it has an issue of any
\* severity; a model whose references all resolve and whose other passes
\* report no error is valid.
C17_OkIffNoErrors ==
    Validated =>
        LET result == validation[1].result[1]
        IN  /\ result.valid <=> SeverityCount(result.issues, "error") = 0
            /\ result.valid <=> result.error_count = 0
            /\ has_issues(result.issues) <=>
                  \E severity \in {"error", "warning", "hint"} :
                      SeverityCount(result.issues, severity) > 0
            /\ (/\ Unresolved(ValidatedModel) = <<>>
                /\ SeverityCount(ValidatedModel.others, "error") = 0)
               => result.valid /\ result.error_count = 0

\* a result with a warning and a hint and no error, which is valid
C17_Witness ==
    /\ Validated
    /\ validation[1].result[1].valid
    /\ SeverityCount(validation[1].result[1].issues, "warning") > 0
    /\ SeverityCount(validation[1].result[1].issues, "hint") > 0

\* the diagnostics that carry a span for an end of a morphism
DiagnosticsFor(morphism, end) ==
    SelectSeq(ValidatedDiagnostics,
              LAMBDA d : Includes(d.spans, [morphism |-> morphism, end |-> end]))

\* the diagnostics of an unresolved name
DiagnosticsOf(name) ==
    SelectSeq(ValidatedDiagnostics, LAMBDA d : d.name = <<name>>)

\* Commerce with Customer and Order and placedBy: Order -> Custommer
TypoScenario ==
    /\ ValidatedModel.objects = <<Customer, Order>>
    /\ ValidatedModel.morphisms =
          <<[name |-> "placedBy", source |-> Order, target |-> Custommer]>>

ReferencesOf(name) ==
    Len(SelectSeq(Unresolved(ValidatedModel), LAMBDA r : r.name = name))

\* C19: the N diagnostics of a pass that share an unresolved name collapse
\* into exactly one diagnostic with N labeled spans when N is 3 or more, and
\* remain N separate diagnostics when N is less than 3.
C19_GroupedFromThree ==
    Validated =>
        \A r \in Range(Unresolved(ValidatedModel)) :
            LET n == ReferencesOf(r.name)
                emitted == DiagnosticsOf(r.name)
            IN  IF n >= 3
                THEN Len(emitted) = 1 /\ Len(emitted[1].spans) = n
                ELSE /\ Len(emitted) = n
                     /\ \A d \in Range(emitted) : Len(d.spans) = 1

\* three references of one misspelt name in one diagnostic, next to two
\* separate diagnostics of another name or none
C19_Witness ==
    /\ Validated
    /\ \E d \in Range(ValidatedDiagnostics) : Len(d.spans) >= 3

\* the least k with k >= 0.3 * length
ThreeTenthsUp(length) ==
    CHOOSE k \in 0..length : 10 * k >= 3 * length /\ \A l \in 0..(k - 1) : 10 * l < 3 * length

C20_WitnessNone ==
    /\ Validated
    /\ \E d \in Range(ValidatedDiagnostics) :
          d.name = <<Odr>> /\ d.suggestions = <<>> /\ d.notes # <<>>

(***************************************************************************)
(* C21, C22, C25: the store's history and its active context.              *)
(***************************************************************************)
\* a step of a store action that calls saveToHistory
RecordedAction ==
    \/ \E name \in ContextNames : createContext(name)
    \/ \E c \in Range(ContextIdsOf(contexts)), name \in ContextRenames :
          renameContext(c, name)
    \/ \E c \in Range(ContextIdsOf(contexts)) : deleteContext(c)
    \/ handleAddBlock("entity")
    \/ \E n \in ActiveNodeIds : deleteNode(activeContextId, n)
    \/ \E morphism \in DrawnMorphisms : addMorphism(activeContextId, morphism)
    \/ \E s, t \in Range(ContextIdsOf(contexts)) : onConnect(s, t)
    \/ \E data \in JsonModels : importModelJson(data)

\* a step of moveNode, setActiveContext, a selection change,
\* setValidationResult or a panel toggle
UnrecordedAction ==
    \/ \E c \in Range(ContextIdsOf(contexts)) : setActiveContext(c)
    \/ \E n \in ActiveNodeIds, position \in DragPositions :
          moveNode(activeContextId, n, position)
    \/ \E n \in ActiveNodeIds : setSelectedNodes(<<n>>)
    \/ /\ HasActiveContext
       /\ \E m \in Range(activeContext.morphisms) : setSelectedEdges(<<m.id>>)
    \/ clearSelection
    \/ \E result \in ArrivingResults : setValidationResult(result)
    \/ togglePalette
    \/ togglePropertiesPanel

\* undo() right after the step restores the state before it, and redo()
\* right after that undo() restores the state and the history after it
UndoThenRedoRestore ==
    LET undone == UndoOutcome(history', CurrentState')
        redone == RedoOutcome(undone.history, undone.state)
    IN  /\ undone.state = CurrentState
        /\ redone.state = CurrentState'
        /\ redone.history = history'

\* undo() with an empty past and redo() with an empty future change nothing
EmptyStacksChangeNothing ==
    /\ ~canUndo => UndoOutcome(history, CurrentState) =
                      [state |-> CurrentState, history |-> history]
    /\ ~canRedo => RedoOutcome(history, CurrentState) =
                      [state |-> CurrentState, history |-> history]

\* C21: immediately after a history-recorded action undo() restores the
\* store state to exactly what it was before the action and a following
\* redo() restores exactly the state after it; undo() with an empty past and
\* redo() with an empty future change nothing.
C21_UndoRedoAreInverses ==
    /\ []EmptyStacksChangeNothing
    /\ [][RecordedAction => UndoThenRedoRestore]_vars
    /\ [][undo => /\ CurrentState' = history.past[Len(history.past)]
                  /\ RedoOutcome(history', CurrentState') =
                        [state |-> CurrentState, history |-> history]]_vars

\* two actions were recorded and the second was undone: both undo and redo
\* lead to a state other than the current one
C21_Witness ==
    /\ canUndo
    /\ canRedo
    /\ history.past[Len(history.past)] # CurrentState
    /\ history.future[Len(history.future)] # CurrentState
    /\ history.past[Len(history.past)] # history.future[Len(history.future)]

\* C22: every store action that calls saveToHistory leaves canRedo() false,
\* while moveNode, setActiveContext, the selection changes,
\* setValidationResult and the panel toggles leave both history stacks
\* unchanged.
C22_RecordedActionsEmptyRedo ==
    [][/\ RecordedAction => ~canRedo'
       /\ UnrecordedAction => history' = history]_vars

\* a context was created and undone, and the creation of the second context
\* emptied the redo stack: one id is used up, one snapshot is kept
C22_Witness ==
    /\ ~canRedo
    /\ Len(history.past) = 1
    /\ nextId = 3
    /\ Len(contexts) = 1
    /\ contexts[1].id = 2

\* the palette was closed while both stacks held snapshots taken with the
\* palette open
C22_WitnessUnrecorded ==
    /\ canUndo
    /\ canRedo
    /\ ~isPaletteOpen
    /\ history.past[Len(history.past)].isPaletteOpen
    /\ history.future[Len(history.future)].isPaletteOpen

\* activeContextId is null or the id of an existing context
ActiveContextExists ==
    activeContextId = NoId \/ HasContext(contexts, activeContextId)

\* C25: in every reachable store state activeContextId is null or the id of
\* an existing context (setActiveContext being called with existing ids
\* only): createContext makes the new context active, and deleting the
\* active context makes the first remaining context active, or null when
\* none remains.
C25_ActiveContextExists ==
    /\ []ActiveContextExists
    /\ [][(\E name \in ContextNames : createContext(name)) =>
             /\ activeContextId' = nextId
             /\ HasContext(contexts', nextId)
             /\ ~HasContext(contexts, nextId)]_vars
    /\ [][\A c \in Range(ContextIdsOf(contexts)) :
             (deleteContext(c) /\ activeContextId = c) =>
                 /\ ~HasContext(contexts', c)
                 /\ activeContextId' = IF contexts' = <<>> THEN NoId
                                       ELSE contexts'[1].id]_vars

\* the active context was deleted and the first remaining one is active
C25_Witness ==
    /\ canUndo
    /\ LET before == history.past[Len(history.past)]
       IN  /\ before.activeContextId # NoId
           /\ HasContext(before.contexts, before.activeContextId)
           /\ ~HasContext(contexts, before.activeContextId)
           /\ contexts # <<>>
           /\ activeContextId = contexts[1].id

\* the only context was deleted while it was active
C25_WitnessNone ==
    /\ canUndo
    /\ LET before == history.past[Len(history.past)]
       IN  /\ Len(before.contexts) = 1
           /\ before.activeContextId = before.contexts[1].id
           /\ contexts = <<>>
           /\ contextMaps = before.contextMaps
           /\ activeContextId = NoId

(***************************************************************************)
(* C23: the limit of the undo stack.                                       *)
(***************************************************************************)
\* a step of a recorded action of the long session
LongRecordedAction ==
    \/ \E name \in ContextNames : createContext(name)
    \/ \E name \in AlternatingNames : renameContext(activeContextId, name)

HistoryWithinLimit ==
    /\ Len(history.past) <= MAX_HISTORY
    /\ Len(history.past) + Len(history.future) <= MAX_HISTORY

Linked(maps, a, b) ==
    \E i \in 1..Len(maps) :
        \/ maps[i].sourceContextId = a /\ maps[i].targetContextId = b
        \/ maps[i].sourceContextId = b /\ maps[i].targetContextId = a

\* no map from a context to itself, no two maps for one unordered pair
OneMapPerPair ==
    /\ \A i \in 1..Len(contextMaps) :
          contextMaps[i].sourceContextId # contextMaps[i].targetContextId
    /\ \A i, j \in 1..Len(contextMaps) :
          i # j => ~Linked(<<contextMaps[j]>>, contextMaps[i].sourceContextId,
                           contextMaps[i].targetContextId)

\* C24: connecting contexts on the context-map canvas never creates a
\* ContextMap from a context to itself and never creates a second
\* ContextMap between two contexts that already have one in either
\* direction, so at most one ContextMap exists per unordered pair.
C24_OneContextMapPerPair ==
    /\ []OneMapPerPair
    /\ [][\A s, t \in Range(ContextIdsOf(contexts)) :
             onConnect(s, t) =>
                 /\ s # t
                 /\ ~Linked(contextMaps, s, t)
                 /\ Len(contextMaps') = Len(contextMaps) + 1
                 /\ Linked(contextMaps', s, t)]_vars

\* two contexts are joined by a map and an id is left for another map:
\* a connection between them, in either direction, is refused
C24_Witness ==
    /\ Len(contextMaps) = 1
    /\ HasContext(contexts, contextMaps[1].sourceContextId)
    /\ HasContext(contexts, contextMaps[1].targetContextId)
    /\ CanGenerateId
    /\ CanRecord
    /\ Len(contexts) = 2

====
